---- MODULE Spec2Model ----
(***************************************************************************)
(* Verification model of the UmbraCore build tooling scripts:             *)
(*   src/error_parser.py                  ErrorParser                      *)
(*   src/tools/scripts/fix_build_errors.py BuildErrorFixer                 *)
(*   src/Scripts/coretypes_migration.py   CoreTypes migration              *)
(*   src/Scripts/batch_error_resolver.py  BatchErrorResolver               *)
(*   src/tools/scripts/parse_build_errors.py parse_build_output            *)
(*   src/Scripts/parse_build_errors.py    parse_build_output               *)
(*   src/Scripts/xpc_migration.py         MigrationRunner                  *)
(*   src/build_standards/fix_build_files.py fix_build_file                 *)
(* Text is modelled as sequences of tokens; a file read with readlines()   *)
(* is a sequence of lines, each line a sequence of tokens.                 *)
(***************************************************************************)
EXTENDS Integers, Sequences, FiniteSets, TLC

VARIABLES
    \* ---- the disk shared by the remediation tools ----
    disk,            \* file path -> content of the file
    preRun,          \* file path -> content at the start of the current run
    backups,         \* the backup tree: set of [file, stamp, content]
    writes,          \* file path -> number of writes in the current run
    dry_run,         \* the dry-run flag of the invocation
    run,             \* 1 = first invocation, 2 = second invocation
    faults,          \* number of I/O failures met so far
    \* ---- ErrorParser (error_parser.py) ----
    buildLog,        \* the sections of the build output file
    error_groups,    \* ErrorParser.error_groups
    warning_groups,  \* ErrorParser.warning_groups
    file_errors,     \* ErrorParser.file_errors
    parse_status,    \* "idle" | "parsing" | "done" | "aborted"
    summary,         \* what print_summary printed, <<>> before it
    \* ---- BuildErrorFixer (fix_build_errors.py) ----
    fixes_applied,   \* BuildErrorFixer.fixes_applied
    files_modified,  \* BuildErrorFixer.files_modified
    replacedAt,      \* <<file, line_num>> of the diagnostics fix_missing_members wrote for
    dry_fixes,       \* fixes_applied at the end of the dry run before this run, -1 if none
    phase,           \* position inside fix_all_errors
    idx,             \* position of the loop of the current fix method
    \* ---- coretypes_migration.py ----
    mode,            \* "dry_run" | "apply_all" (the execution mode of main)
    now,             \* the clock, in seconds (the backup stamp)
    swift_files,     \* main's swift_files (result of the search)
    bazel_files,     \* main's bazel_files
    stats,           \* MigrationStats
    backups_made,    \* number of backups created in the current run
    mpc,             \* position inside main
    mpos,            \* position of the current loop over files
    pending,         \* <<updated content>> between the backup and the write
    choice,          \* interactive_update: "y" once the current file is confirmed
    answers,         \* the answers typed at the prompts of the run, in order
    \* ---- BatchErrorResolver (batch_error_resolver.py) ----
    fix_type,        \* args.fix
    modified_files,  \* BatchErrorResolver.modified_files
    rpc,             \* position inside BatchErrorResolver.run
    \* ---- parse_build_output (tools/scripts/parse_build_errors.py) ----
    log_lines,       \* content.split('\n')
    targets,         \* the defaultdict `targets`
    current_target,  \* "" is None
    li,              \* the loop index i (0-based)
    pass,            \* "idle" | "first" | "second" | "done"
    \* ---- parse_build_output (Scripts/parse_build_errors.py) ----
    cls_lines,       \* f.readlines()
    current_module,  \* the module of the last marker line
    cls_i,           \* the loop index i (0-based)
    swift_6_warnings,
    missing_function_errors,
    type_conformance_errors,
    missing_member_errors,
    other_errors,
    cls_pc,          \* "idle" | "parse" | "report" | "done" | "crashed"
    \* ---- MigrationRunner (Scripts/xpc_migration.py) ----
    xpc_steps,       \* the list `steps` of run_migration, as a set
    xpc_modules,     \* the list `modules` of run_migration
    xpc_i,           \* the position of the loop over modules (1-based)
    all_success,     \* run_migration's all_success
    xpc_results,     \* what process_module did and returned, one record per call
    xpc_pc,          \* "idle" | "start" | "modules" | "verify" | "returned"
    \* ---- fix_build_file (build_standards/fix_build_files.py) ----
    build_file,      \* the argument of fix_build_file, <<parent_dir, base_dir>>
    bf_pc            \* "idle" | "ready" | "fixed" | "skipped" | "not_found"

diskVars == <<disk, preRun, backups, writes, dry_run, run, faults>>
parserVars == <<buildLog, error_groups, warning_groups, file_errors, parse_status, summary>>
fixerVars == <<fixes_applied, files_modified, replacedAt, dry_fixes, phase, idx>>

migVars ==
    <<mode, now, swift_files, bazel_files, stats, backups_made, mpc, mpos, pending,
      choice, answers>>

resolverVars == <<fix_type, modified_files, rpc>>
logVars == <<log_lines, targets, current_target, li, pass>>

classifyVars ==
    <<cls_lines, current_module, cls_i, swift_6_warnings, missing_function_errors,
      type_conformance_errors, missing_member_errors, other_errors, cls_pc>>

xpcVars == <<xpc_steps, xpc_modules, xpc_i, all_success, xpc_results, xpc_pc>>
buildVars == <<build_file, bf_pc>>

vars ==
    <<diskVars, parserVars, fixerVars, migVars, resolverVars, logVars, classifyVars,
      xpcVars, buildVars>>

\* what the actions of one tool leave alone
fixerOthers == <<migVars, resolverVars, logVars, classifyVars, xpcVars, buildVars>>
migOthers ==
    <<parserVars, fixerVars, dry_run, resolverVars, logVars, classifyVars, xpcVars, buildVars>>
resolverOthers ==
    <<parserVars, fixerVars, migVars, logVars, classifyVars, xpcVars, buildVars,
      backups, run, faults>>
logOthers ==
    <<diskVars, parserVars, fixerVars, migVars, resolverVars, classifyVars, xpcVars, buildVars>>
parserOthers ==
    <<diskVars, fixerVars, migVars, resolverVars, logVars, classifyVars, xpcVars, buildVars>>
classifyOthers ==
    <<diskVars, parserVars, fixerVars, migVars, resolverVars, logVars, xpcVars, buildVars>>
xpcOthers ==
    <<disk, preRun, backups, writes, run, faults, parserVars, fixerVars, migVars,
      resolverVars, logVars, classifyVars, buildVars>>
buildOthers ==
    <<backups, dry_run, faults, parserVars, fixerVars, migVars, resolverVars, logVars,
      classifyVars, xpcVars>>

(***************************************************************************)
(* Bounds of the model.                                                    *)
(***************************************************************************)
MaxLines == 2        \* lines per source file
MaxDiags == 2        \* diagnostic sections per build log
MaxSwiftLines == 2   \* lines per Swift file of the migrated project
MaxFaults == 1       \* I/O failures (read, backup, write) per scenario

(***************************************************************************)
(* Generic text helpers (Python str semantics over token sequences).       *)
(***************************************************************************)
RECURSIVE SeqsUpTo(_, _)
SeqsUpTo(S, n) ==
    IF n = 0 THEN {<<>>}
    ELSE LET shorter == SeqsUpTo(S, n - 1)
         IN  shorter \cup {Append(s, x) : s \in {t \in shorter : Len(t) = n - 1}, x \in S}

IsPrefix(p, s) == Len(p) <= Len(s) /\ SubSeq(s, 1, Len(p)) = p

\* `sub in s`
RECURSIVE Contains(_, _)
Contains(s, sub) ==
    IF Len(s) < Len(sub) THEN FALSE
    ELSE IsPrefix(sub, s) \/ Contains(Tail(s), sub)

\* s.replace(old, new, count): left to right, non-overlapping; count < 0 = all
RECURSIVE ReplaceN(_, _, _, _)
ReplaceN(s, old, new, count) ==
    IF count = 0 \/ Len(s) < Len(old) THEN s
    ELSE IF IsPrefix(old, s)
         THEN new \o ReplaceN(SubSeq(s, Len(old) + 1, Len(s)), old, new, count - 1)
         ELSE <<Head(s)>> \o ReplaceN(Tail(s), old, new, count)

StrReplace(s, old, new) == ReplaceN(s, old, new, -1)

\* Python list indexing lines[i] with 0-based i, negative i counting from the
\* end; 0 when the index raises IndexError.  Result is a 1-based position.
PyIndex(lines, i) ==
    LET p == IF i >= 0 THEN i + 1 ELSE Len(lines) + i + 1
    IN  IF p >= 1 /\ p <= Len(lines) THEN p ELSE 0


(***************************************************************************)
(* ErrorParser (src/error_parser.py).                                      *)
(* A message is a text; MessageTable gives, for each text of the model,    *)
(* the error_patterns whose regex matches it, whether it holds "warning:", *)
(* and the captures the fix methods read from it.                          *)
(* A section is the first line's ':'-separated fields plus the message:    *)
(* nf = number of fields, lineInt/colInt = whether int() accepts field 1/2.*)
(***************************************************************************)
SourceFiles == {"Sources/A.swift", "Sources/B.swift"}

NoCaptures == [type_name |-> "", member |-> "", property_name |-> "", property_type |-> ""]

Features(pats, warning, caps) ==
    [pats |-> pats, warning |-> warning, type_name |-> caps.type_name,
     member |-> caps.member, property_name |-> caps.property_name,
     property_type |-> caps.property_type]

\* the message texts of the model and what the regexes find in them
MsgMissingXPC == "error: type 'XPCSecurityError' has no member 'operationFailed'"
MsgBrace == "error: extraneous '}' at top level"
MsgSendableWarn ==
    "warning: stored property 'handler' of 'Sendable'-conforming struct 'S' has non-sendable type '() -> Void'"
MsgOther == "error: cannot convert value"
MsgGeneralWarn == "warning: variable 'x' was never used"
\* a section of two lines: ' '.join(lines) holds the text of both
MsgUnwrapAndBinding ==
    "error: value of optional type 'T?' must be unwrapped note: initializer for conditional binding must have Optional type"
MsgMemberWarn == "warning: type 'Foo' has no member 'bar'; cannot find type 'Baz' in scope"
MsgSendableErr ==
    "error: stored property 'handler' of 'Sendable'-conforming struct 'S' has non-sendable type '() -> Void'"
MsgUnterminated == "error: unterminated string literal"
MsgBinding == "error: initializer for conditional binding must have Optional type, not 'Foo'"

MessageTable ==
    MsgMissingXPC :> Features({"missing_member"}, FALSE,
                        [NoCaptures EXCEPT !.type_name = "XPCSecurityError",
                                           !.member = "operationFailed"])
    @@ MsgBrace :> Features({"extraneous_close_brace"}, FALSE, NoCaptures)
    @@ MsgSendableWarn :> Features({"sendable_property"}, TRUE,
                          [NoCaptures EXCEPT !.property_name = "handler",
                                             !.property_type = "() -> Void"])
    @@ MsgOther :> Features({}, FALSE, NoCaptures)
    @@ MsgGeneralWarn :> Features({}, TRUE, NoCaptures)
    @@ MsgUnwrapAndBinding :> Features({"unwrap_optional", "incorrect_optional"}, FALSE, NoCaptures)
    @@ MsgMemberWarn :> Features({"type_not_found", "missing_member"}, TRUE,
                          [NoCaptures EXCEPT !.type_name = "Foo", !.member = "bar"])
    @@ MsgSendableErr :> Features({"sendable_property"}, FALSE,
                          [NoCaptures EXCEPT !.property_name = "handler",
                                             !.property_type = "() -> Void"])
    @@ MsgUnterminated :> Features({"unterminated_string"}, FALSE, NoCaptures)
    @@ MsgBinding :> Features({"incorrect_optional"}, FALSE, NoCaptures)

\* pattern.search(error_message) for the pattern named pat
Matches(pat, msg) == pat \in MessageTable[msg].pats

\* "warning:" in error_message.lower()
HasWarning(msg) == MessageTable[msg].warning

\* error_patterns, in dict (insertion) order
error_patterns ==
    << "unterminated_string", "sendable_property", "missing_member",
       "type_not_found", "extraneous_close_brace", "incorrect_optional",
       "unwrap_optional", "non_sendable_cross_actor" >>

PatternNames == {error_patterns[i] : i \in 1..Len(error_patterns)}
Categories == PatternNames \cup {"general_warning", "other_error"}

\* _determine_error_type with the "warning:" test before the loop
determine_error_type_WarningFirst(msg) ==
    LET hits == {i \in 1..Len(error_patterns) : Matches(error_patterns[i], msg)}
    IN  IF HasWarning(msg) THEN "general_warning"
        ELSE IF hits # {}
        THEN error_patterns[CHOOSE i \in hits : \A j \in hits : i <= j]
        ELSE "other_error"

\* _determine_error_type: first pattern of the table that matches
determine_error_type(msg) ==
    LET hits == {i \in 1..Len(error_patterns) : Matches(error_patterns[i], msg)}
    IN  IF hits # {}
        THEN error_patterns[CHOOSE i \in hits : \A j \in hits : i <= j]
        ELSE IF HasWarning(msg) THEN "general_warning" ELSE "other_error"

\* a defaultdict(list): keys in insertion order, and the list of every key
EmptyDict(K) == [keys |-> <<>>, at |-> [k \in K |-> <<>>]]

InSeq(x, s) == \E i \in 1..Len(s) : s[i] = x

DictAppend(d, k, v) ==
    [keys |-> IF InSeq(k, d.keys) THEN d.keys ELSE Append(d.keys, k),
     at   |-> [d.at EXCEPT ![k] = Append(@, v)]]

\* dict.get(k, [])
DictGet(d, k) == d.at[k]

\* list.sort(key=lambda x: x[1]): stable, ascending on the line number
RECURSIVE InsertByLine(_, _)
InsertByLine(sorted, e) ==
    IF sorted = <<>> THEN <<e>>
    ELSE IF sorted[Len(sorted)][2] <= e[2] THEN Append(sorted, e)
    ELSE Append(InsertByLine(SubSeq(sorted, 1, Len(sorted) - 1), e), sorted[Len(sorted)])

RECURSIVE SortByLine(_)
SortByLine(s) ==
    IF s = <<>> THEN <<>>
    ELSE InsertByLine(SortByLine(SubSeq(s, 1, Len(s) - 1)), s[Len(s)])

ParserEmpty ==
    [eg |-> EmptyDict(Categories), wg |-> EmptyDict(Categories),
     fe |-> EmptyDict(SourceFiles), status |-> "parsing"]

\* the loop body with a warning appended to error_groups as well
ParseSection_BothGroups(st, sec) ==
    IF sec.nf < 3 THEN st
    ELSE IF ~sec.lineInt \/ ~sec.colInt THEN [st EXCEPT !.status = "aborted"]
    ELSE LET error_type == determine_error_type(sec.msg)
             entry == <<sec.file, sec.line, sec.col, sec.msg>>
             byFile == <<error_type, sec.line, sec.col, sec.msg>>
         IN  [eg |-> DictAppend(st.eg, error_type, entry),
              wg |-> IF HasWarning(sec.msg) THEN DictAppend(st.wg, error_type, entry) ELSE st.wg,
              fe |-> DictAppend(st.fe, sec.file, byFile),
              status |-> st.status]

\* body of the loop `for section in error_sections` (lines 45-63); int() of a
\* non-numeric field raises ValueError, caught by the except of line 69,
\* which ends parse()
ParseSection(st, sec) ==
    IF sec.nf < 3 THEN st
    ELSE IF ~sec.lineInt \/ ~sec.colInt THEN [st EXCEPT !.status = "aborted"]
    ELSE LET error_type == determine_error_type(sec.msg)
             entry == <<sec.file, sec.line, sec.col, sec.msg>>
             byFile == <<error_type, sec.line, sec.col, sec.msg>>
         IN  [eg |-> IF HasWarning(sec.msg) THEN st.eg ELSE DictAppend(st.eg, error_type, entry),
              wg |-> IF HasWarning(sec.msg) THEN DictAppend(st.wg, error_type, entry) ELSE st.wg,
              fe |-> DictAppend(st.fe, sec.file, byFile),
              status |-> st.status]

\* lines 66-67: sort every file's list by line number
SortFileErrors(st) ==
    [st EXCEPT !.fe.at = [f \in SourceFiles |-> SortByLine(st.fe.at[f])],
               !.status = "done"]

\* ErrorParser.parse as a whole
RECURSIVE ParseFrom(_, _, _)
ParseFrom(st, secs, i) ==
    IF st.status = "aborted" THEN st
    ELSE IF i > Len(secs) THEN SortFileErrors(st)
    ELSE ParseFrom(ParseSection(st, secs[i]), secs, i + 1)

parse(secs) == ParseFrom(ParserEmpty, secs, 1)


(***************************************************************************)
(* Variables of a tool that a specification does not run.                  *)
(***************************************************************************)
MigIdle ==
    /\ mode = "none"
    /\ now = 0
    /\ swift_files = <<>>
    /\ bazel_files = <<>>
    /\ stats = <<>>
    /\ backups_made = 0
    /\ mpc = "idle"
    /\ mpos = 0
    /\ pending = <<>>
    /\ choice = ""
    /\ answers = <<>>

ParserIdle ==
    /\ buildLog = <<>>
    /\ error_groups = EmptyDict(Categories)
    /\ warning_groups = EmptyDict(Categories)
    /\ file_errors = EmptyDict(SourceFiles)
    /\ parse_status = "idle"
    /\ summary = <<>>

FixerIdle ==
    /\ fixes_applied = 0
    /\ files_modified = {}
    /\ replacedAt = {}
    /\ dry_fixes = -1
    /\ phase = "idle"
    /\ idx = 0

ResolverIdle ==
    /\ fix_type = "none"
    /\ modified_files = {}
    /\ rpc = "idle"

LogIdle ==
    /\ log_lines = <<>>
    /\ targets = <<>>
    /\ current_target = ""
    /\ li = 0
    /\ pass = "idle"

ClassifyIdle ==
    /\ cls_lines = <<>>
    /\ current_module = <<>>
    /\ cls_i = 0
    /\ swift_6_warnings = <<>>
    /\ missing_function_errors = <<>>
    /\ type_conformance_errors = <<>>
    /\ missing_member_errors = <<>>
    /\ other_errors = <<>>
    /\ cls_pc = "idle"

XpcIdle ==
    /\ xpc_steps = {}
    /\ xpc_modules = <<>>
    /\ xpc_i = 0
    /\ all_success = TRUE
    /\ xpc_results = <<>>
    /\ xpc_pc = "idle"

BuildIdle ==
    /\ build_file = <<>>
    /\ bf_pc = "idle"

(***************************************************************************)
(* BuildErrorFixer (src/tools/scripts/fix_build_errors.py).                *)
(***************************************************************************)
IsWs(t) == t \in {" ", "\n"}

\* s.strip()
RECURSIVE Strip(_)
Strip(s) ==
    IF s = <<>> THEN s
    ELSE IF IsWs(s[1]) THEN Strip(Tail(s))
    ELSE IF IsWs(s[Len(s)]) THEN Strip(SubSeq(s, 1, Len(s) - 1))
    ELSE s

\* sep-separated parts of s (str.split(sep), sep one token)
RECURSIVE Split(_, _)
Split(s, sep) ==
    IF ~InSeq(sep, s) THEN <<s>>
    ELSE LET k == CHOOSE i \in 1..Len(s) : s[i] = sep /\ \A j \in 1..(i - 1) : s[j] # sep
         IN  <<SubSeq(s, 1, k - 1)>> \o Split(SubSeq(s, k + 1, Len(s)), sep)

\* tokens of a source line
OpFailed == <<".", "operationFailed">>
IntError == <<".", "internalError">>

\* a well-formed section "Sources/X.swift:<line>:<col>: error: <msg>"
Section(f, l, m) ==
    [nf |-> 5, file |-> f, line |-> l, col |-> 1, lineInt |-> TRUE, colInt |-> TRUE, msg |-> m]

\* result of the body of one fix loop: the list `lines` after the edit, whether
\* fixes_applied is incremented, whether write_file is called, and whether
\* an IndexError escapes
FixResult(lines, applied, write, crash) ==
    [lines |-> lines, applied |-> applied, write |-> write, crash |-> crash]

\* fix_missing_members replacing only the first occurrence on the line
FixMissingMember_FirstOnly(lines, line_num, msg) ==
    IF MessageTable[msg].type_name = "XPCSecurityError"
       /\ MessageTable[msg].member = "operationFailed"
       /\ line_num - 1 < Len(lines)
    THEN LET p == PyIndex(lines, line_num - 1)
         IN  IF p = 0 THEN FixResult(lines, FALSE, FALSE, TRUE)
             ELSE FixResult([lines EXCEPT ![p] = ReplaceN(@, OpFailed, IntError, 1)],
                            TRUE, TRUE, FALSE)
    ELSE FixResult(lines, FALSE, FALSE, FALSE)

\* body of the loop of fix_missing_members, lines 113-130
FixMissingMember(lines, line_num, msg) ==
    IF MessageTable[msg].type_name = "XPCSecurityError"
       /\ MessageTable[msg].member = "operationFailed"
       /\ line_num - 1 < Len(lines)
    THEN LET p == PyIndex(lines, line_num - 1)
         IN  IF p = 0 THEN FixResult(lines, FALSE, FALSE, TRUE)
             ELSE FixResult([lines EXCEPT ![p] = StrReplace(@, OpFailed, IntError)],
                            TRUE, TRUE, FALSE)
    ELSE FixResult(lines, FALSE, FALSE, FALSE)

\* body of the loop of fix_extraneous_braces, lines 136-144
FixExtraneousBrace(lines, line_num, msg) ==
    IF line_num - 1 < Len(lines)
    THEN LET p == PyIndex(lines, line_num - 1)
         IN  IF p = 0 THEN FixResult(lines, FALSE, FALSE, TRUE)
             ELSE FixResult([lines EXCEPT ![p] = ReplaceN(@, <<"}">>, <<>>, 1)],
                            TRUE, TRUE, FALSE)
    ELSE FixResult(lines, FALSE, FALSE, FALSE)

\* '->' in property_type, for the property types of MessageTable
IsClosureType(property_type) == property_type \in {"() -> Void"}

\* the position of "->" after position e of s, blanks skipped (\s*->), 0 if none
ArrowAfter(s, e) ==
    IF e + 1 <= Len(s) /\ s[e + 1] = "->" THEN e + 1
    ELSE IF e + 2 <= Len(s) /\ IsWs(s[e + 1]) /\ s[e + 2] = "->" THEN e + 2
    ELSE 0

\* (.+?)\s*-> from position g of s: the last position of the shortest group
\* an arrow follows, 0 if none
GroupEnd(s, g) ==
    LET ends == {e \in g..Len(s) : ArrowAfter(s, e) # 0}
    IN  IF ends = {} THEN 0 ELSE CHOOSE e \in ends : \A h \in ends : e <= h

\* the match of (let|var)\s+name\s*:\s*(.+?)\s*-> at the start of s: the
\* positions of group 3 and of the arrow, arrow 0 when s does not start
\* with a match; \s* after the colon gives its blank back when no group
\* would be left
SendableMatch(s, name) ==
    LET none == [from |-> 0, to |-> 0, arrow |-> 0]
        colon == IF Len(s) >= 4 /\ s[4] = ":" THEN 4
                 ELSE IF Len(s) >= 5 /\ IsWs(s[4]) /\ s[5] = ":" THEN 5 ELSE 0
        at(g) == [from |-> g, to |-> GroupEnd(s, g), arrow |-> ArrowAfter(s, GroupEnd(s, g))]
    IN  IF ~(Len(s) >= 3 /\ s[1] \in {"let", "var"} /\ IsWs(s[2]) /\ s[3] = name) \/ colon = 0
        THEN none
        ELSE IF colon + 1 <= Len(s) /\ IsWs(s[colon + 1]) /\ GroupEnd(s, colon + 2) # 0
        THEN at(colon + 2)
        ELSE IF GroupEnd(s, colon + 1) # 0 THEN at(colon + 1)
        ELSE none

\* re.sub(r'(\s*)(let|var)\s+NAME\s*:\s*(.+?)\s*->', r'\1\2 NAME: @Sendable \3->', s)
RECURSIVE SubSendable(_, _)
SubSendable(s, name) ==
    IF s = <<>> THEN <<>>
    ELSE LET m == SendableMatch(s, name)
         IN  IF m.arrow # 0
             THEN <<s[1], " ", name, ":", " ", "@Sendable", " ">> \o SubSeq(s, m.from, m.to)
                     \o <<"->">> \o SubSendable(SubSeq(s, m.arrow + 1, Len(s)), name)
             ELSE <<s[1]>> \o SubSendable(Tail(s), name)

\* body of the loop of fix_sendable_properties, lines 84-107
FixSendableProperty(lines, line_num, msg) ==
    LET property_name == MessageTable[msg].property_name
    IN  IF property_name = "" THEN FixResult(lines, FALSE, FALSE, FALSE)
        ELSE IF IsClosureType(MessageTable[msg].property_type) /\ line_num - 1 < Len(lines)
        THEN LET p == PyIndex(lines, line_num - 1)
             IN  IF p = 0 THEN FixResult(lines, FALSE, FALSE, TRUE)
                 ELSE IF Contains(lines[p], <<property_name>>)
                         /\ ~Contains(lines[p], <<"@Sendable">>)
                 THEN FixResult([lines EXCEPT ![p] = SubSendable(@, property_name)],
                                TRUE, TRUE, FALSE)
                 ELSE FixResult(lines, FALSE, FALSE, FALSE)
        ELSE FixResult(lines, FALSE, FALSE, FALSE)

\* the two characters \" and the character "
EscapedQuote == "\\\""
Quote == "\""

\* body of the loop of fix_unterminated_strings, lines 151-163
FixUnterminatedString(lines, line_num, msg) ==
    IF line_num - 1 < Len(lines)
    THEN LET p == PyIndex(lines, line_num - 1)
         IN  IF p = 0 THEN FixResult(lines, FALSE, FALSE, TRUE)
             ELSE IF Contains(lines[p], <<"@available">>) /\ Contains(lines[p], <<EscapedQuote>>)
             THEN FixResult([lines EXCEPT ![p] = StrReplace(@, <<EscapedQuote>>, <<Quote>>)],
                            TRUE, TRUE, FALSE)
             ELSE FixResult(lines, FALSE, FALSE, FALSE)
    ELSE FixResult(lines, FALSE, FALSE, FALSE)

\* tokens that hold the character '?'
HasQuestionMark(t) == t \in {"as?", "Foo?"}

\* body of the loop of fix_incorrect_optionals, lines 172-188; the "\n" the
\* new line ends with is the end of the line
FixIncorrectOptional(lines, line_num, msg) ==
    IF line_num - 1 < Len(lines)
    THEN LET p == PyIndex(lines, line_num - 1)
         IN  IF p = 0 THEN FixResult(lines, FALSE, FALSE, TRUE)
             ELSE LET line == lines[p]
                      parts == Split(line, "=")
                      rhs == Strip(parts[2])
                  IN  IF Contains(line, <<"guard", " ", "let">>) /\ InSeq("=", line)
                         /\ Len(parts) >= 2
                         /\ ~\E k \in 1..Len(parts[2]) : HasQuestionMark(parts[2][k])
                      THEN FixResult([lines EXCEPT ![p] =
                                         parts[1] \o <<"=", " ">> \o rhs \o <<" ", "as?", " ">>
                                            \o Split(rhs, "(")[1]],
                                     TRUE, TRUE, FALSE)
                      ELSE FixResult(lines, FALSE, FALSE, FALSE)
    ELSE FixResult(lines, FALSE, FALSE, FALSE)

\* the loop body of the fix method ph
FixOf(ph, lines, line_num, msg) ==
    CASE ph = "sendable"  -> FixSendableProperty(lines, line_num, msg)
      [] ph = "missing"   -> FixMissingMember(lines, line_num, msg)
      [] ph = "braces"    -> FixExtraneousBrace(lines, line_num, msg)
      [] ph = "strings"   -> FixUnterminatedString(lines, line_num, msg)
      [] ph = "optionals" -> FixIncorrectOptional(lines, line_num, msg)

\* the fix methods in the order fix_all_errors calls them (lines 43-47), with
\* the group each one iterates
Phases == <<"sendable", "missing", "braces", "strings", "optionals">>

GroupOf(eg, wg, ph) ==
    CASE ph = "sendable"  -> DictGet(wg, "sendable_property")
      [] ph = "missing"   -> DictGet(eg, "missing_member")
      [] ph = "braces"    -> DictGet(eg, "extraneous_close_brace")
      [] ph = "strings"   -> DictGet(eg, "unterminated_string")
      [] ph = "optionals" -> DictGet(eg, "incorrect_optional")
      [] OTHER            -> <<>>

PhaseGroup(ph) == GroupOf(error_groups, warning_groups, ph)

NextPhase(ph) ==
    IF ph = Phases[Len(Phases)] THEN "done"
    ELSE Phases[(CHOOSE i \in 1..Len(Phases) : Phases[i] = ph) + 1]

\* control flow of fix_all_errors: the next loop iteration to run from
\* iteration i of method ph on; a method whose group is exhausted returns
\* and the next method is called, "done" after the last one
RECURSIVE NextPos(_, _, _, _)
NextPos(eg, wg, ph, i) ==
    IF ph = "done" THEN [phase |-> "done", idx |-> 1]
    ELSE IF i <= Len(GroupOf(eg, wg, ph)) THEN [phase |-> ph, idx |-> i]
    ELSE NextPos(eg, wg, NextPhase(ph), 1)

\* write_file without the dry_run test of line 64
write_file_NoDryRunTest(f, lines, wok) ==
    IF ~wok
    THEN UNCHANGED <<disk, files_modified, writes>>
    ELSE /\ disk' = [disk EXCEPT ![f] = lines]
         /\ files_modified' = files_modified \cup {f}
         /\ writes' = [writes EXCEPT ![f] = @ + 1]

\* write_file, lines 62-75: nothing in a dry run; otherwise the file gets the
\* lines and joins files_modified, unless the write raises (wok = FALSE)
write_file(f, lines, wok) ==
    IF dry_run \/ ~wok
    THEN UNCHANGED <<disk, files_modified, writes>>
    ELSE /\ disk' = [disk EXCEPT ![f] = lines]
         /\ files_modified' = files_modified \cup {f}
         /\ writes' = [writes EXCEPT ![f] = @ + 1]

\* analyze_errors, lines 32-36: parse the build output, take the groups
analyze_errors ==
    /\ phase = "start"
    /\ LET st == parse(buildLog)
       IN  /\ error_groups' = st.eg
           /\ warning_groups' = st.wg
           /\ file_errors' = st.fe
           /\ parse_status' = st.status
           /\ phase' = NextPos(st.eg, st.wg, Phases[1], 1).phase
           /\ idx' = NextPos(st.eg, st.wg, Phases[1], 1).idx
    /\ UNCHANGED <<diskVars, buildLog, summary, fixes_applied, files_modified,
                   replacedAt, dry_fixes, fixerOthers>>

\* one iteration of the loop of a fix method: read_file (lines 53-60, [] when
\* the read raises), the fix, write_file (which may raise inside)
FixStep(ph) ==
    /\ phase = ph
    /\ idx <= Len(PhaseGroup(ph))
    /\ LET d == PhaseGroup(ph)[idx]
           f == d[1]
       IN  \E fault \in {"none", "read", "write"} :
             LET lines == IF fault = "read" THEN <<>> ELSE disk[f]
                 r == FixOf(ph, lines, d[2], d[4])
             IN  /\ fault # "none" => faults < MaxFaults
                 /\ fault = "write" => (r.write /\ ~dry_run)
                 /\ faults' = IF fault = "none" THEN faults ELSE faults + 1
                 /\ IF r.crash
                    THEN /\ phase' = "crashed"
                         /\ UNCHANGED <<disk, files_modified, writes, fixes_applied,
                                        replacedAt, idx>>
                    ELSE /\ fixes_applied' = IF r.applied THEN fixes_applied + 1 ELSE fixes_applied
                         /\ IF r.write THEN write_file(f, r.lines, fault # "write")
                                       ELSE UNCHANGED <<disk, files_modified, writes>>
                         /\ replacedAt' =
                               IF ph = "missing" /\ r.write /\ fault # "write" /\ ~dry_run
                               THEN replacedAt \cup {<<f, d[2]>>}
                               ELSE replacedAt
                         /\ phase' = NextPos(error_groups, warning_groups, ph, idx + 1).phase
                         /\ idx' = NextPos(error_groups, warning_groups, ph, idx + 1).idx
    /\ UNCHANGED <<preRun, backups, dry_run, run, dry_fixes, parserVars, fixerOthers>>

fix_sendable_properties == FixStep("sendable")

fix_missing_members == FixStep("missing")

fix_extraneous_braces == FixStep("braces")

fix_unterminated_strings == FixStep("strings")

fix_incorrect_optionals == FixStep("optionals")

\* the script is invoked again with the same build log and flags: a new
\* BuildErrorFixer (lines 24-30) on the files the first run left
SecondRun ==
    /\ phase = "done"
    /\ run = 1
    /\ run' = 2
    /\ preRun' = disk
    /\ writes' = [f \in DOMAIN writes |-> 0]
    /\ fixes_applied' = 0
    /\ files_modified' = {}
    /\ error_groups' = EmptyDict(Categories)
    /\ warning_groups' = EmptyDict(Categories)
    /\ file_errors' = EmptyDict(SourceFiles)
    /\ parse_status' = "idle"
    /\ phase' = "start"
    /\ idx' = 1
    /\ UNCHANGED <<disk, backups, dry_run, faults, buildLog, summary, replacedAt,
                   dry_fixes, fixerOthers>>

\* inputs of the fixer runs
LineSamples ==
    { <<"x">>, <<"}", "}">> \o OpFailed \o OpFailed }

Contents == {c \in SeqsUpTo(LineSamples, MaxLines) : Len(c) = MaxLines}

FixerMessages == {MsgMissingXPC, MsgBrace}

FixerSections ==
    {Section(f, l, m) : f \in SourceFiles, l \in 0..(MaxLines + 1), m \in FixerMessages}

FixerInit(Files, Logs) ==
    /\ disk \in [SourceFiles -> Files]
    /\ preRun = disk
    /\ backups = {}
    /\ writes = [f \in SourceFiles |-> 0]
    /\ dry_run \in BOOLEAN
    /\ run = 1
    /\ faults = 0
    /\ buildLog \in Logs
    /\ error_groups = EmptyDict(Categories)
    /\ warning_groups = EmptyDict(Categories)
    /\ file_errors = EmptyDict(SourceFiles)
    /\ parse_status = "idle"
    /\ summary = <<>>
    /\ fixes_applied = 0
    /\ files_modified = {}
    /\ replacedAt = {}
    /\ dry_fixes = -1
    /\ phase = "start"
    /\ idx = 1
    /\ MigIdle
    /\ ResolverIdle
    /\ LogIdle
    /\ ClassifyIdle
    /\ XpcIdle
    /\ BuildIdle

Init == FixerInit(Contents, SeqsUpTo(FixerSections, MaxDiags))

Next ==
    \/ analyze_errors
    \/ fix_missing_members
    \/ fix_extraneous_braces
    \/ SecondRun

Spec == Init /\ [][Next]_vars

\* ---- fix_all_errors with its five fix methods; a dry run may be followed
\* ---- by the apply run over the same build log
\* main, lines 197-206, invoked without --dry-run after a dry run: a new
\* BuildErrorFixer on the same build output file
ApplyAfterDryRun ==
    /\ phase = "done"
    /\ run = 1
    /\ dry_run
    /\ run' = 2
    /\ dry_run' = FALSE
    /\ dry_fixes' = fixes_applied
    /\ preRun' = disk
    /\ writes' = [f \in DOMAIN writes |-> 0]
    /\ fixes_applied' = 0
    /\ files_modified' = {}
    /\ error_groups' = EmptyDict(Categories)
    /\ warning_groups' = EmptyDict(Categories)
    /\ file_errors' = EmptyDict(SourceFiles)
    /\ parse_status' = "idle"
    /\ phase' = "start"
    /\ idx' = 1
    /\ UNCHANGED <<disk, backups, faults, buildLog, summary, replacedAt, fixerOthers>>

\* source lines of the runs of all five methods
SendableLine == <<"let", " ", "handler", ":", " ", "()", " ", "->", " ", "Void">>
AvailableLine == <<"@available", "(", EscapedQuote, "x", EscapedQuote, ")">>
GuardLine == <<"guard", " ", "let", " ", "x", " ", "=", " ", "foo", "(", ")", " ", "else">>
FixAllLines == <<SendableLine, AvailableLine, GuardLine>>

\* files of MaxLines lines that hold the sample lines in turn
FixAllContents ==
    {[j \in 1..MaxLines |-> FixAllLines[((c + j) % Len(FixAllLines)) + 1]] :
        c \in 1..Len(FixAllLines)}

FixAllMessages ==
    {MsgSendableWarn, MsgSendableErr, MsgMissingXPC, MsgBrace, MsgUnterminated, MsgBinding}

FixAllSections ==
    {Section(f, l, m) : f \in SourceFiles, l \in 0..MaxLines, m \in FixAllMessages}

FixAllInit == FixerInit(FixAllContents, SeqsUpTo(FixAllSections, MaxDiags))

FixAllNext ==
    \/ analyze_errors
    \/ fix_sendable_properties
    \/ fix_missing_members
    \/ fix_extraneous_braces
    \/ fix_unterminated_strings
    \/ fix_incorrect_optionals
    \/ ApplyAfterDryRun

SpecFixAll == FixAllInit /\ [][FixAllNext]_vars


(***************************************************************************)
(* CoreTypes migration (src/Scripts/coretypes_migration.py).               *)
(* A file's content is one sequence of tokens, "\n" between its lines; a   *)
(* token is a run of characters, so that "CoreTypesInterfaces" is the two  *)
(* tokens "CoreTypes", "Interfaces".                                       *)
(***************************************************************************)
OLD_IMPORT == <<"CoreTypes">>
NEW_IMPORT == <<"CoreTypes", "Interfaces">>
OLD_BAZEL_DEP == <<"//Sources/CoreTypes">>
NEW_BAZEL_DEP == <<"//Sources/CoreTypes", "Interfaces">>

SwiftFiles == {"Sources/A.swift", "Sources/B.swift"}
BazelFiles == {"Sources/BUILD.bazel"}
ProjectFiles == SwiftFiles \cup BazelFiles
\* the order in which os.walk lists the files
WalkOrder == <<"Sources/A.swift", "Sources/B.swift", "Sources/BUILD.bazel">>

\* tokens that begin with a word character (for the regex \b)
WordTokens == {"import", "CoreTypes", "Interfaces", "x"}

\* regex \b after position k of s
BoundaryAfter(s, k) == k >= Len(s) \/ s[k + 1] \notin WordTokens

\* content.split("\n")
RECURSIVE SplitLines(_)
SplitLines(s) ==
    IF ~InSeq("\n", s) THEN <<s>>
    ELSE LET k == CHOOSE i \in 1..Len(s) : s[i] = "\n" /\ \A j \in 1..(i - 1) : s[j] # "\n"
         IN  <<SubSeq(s, 1, k - 1)>> \o SplitLines(SubSeq(s, k + 1, Len(s)))

\* "\n".join(lines)
RECURSIVE JoinLines(_)
JoinLines(ls) ==
    IF Len(ls) = 0 THEN <<>>
    ELSE IF Len(ls) = 1 THEN ls[1]
    ELSE ls[1] \o <<"\n">> \o JoinLines(Tail(ls))

ImportStmt(name) == <<"import", " ">> \o name
TestablePrefix == <<"@testable", " ">>

\* re.search(r"(@testable\s+)?import\s+" + name + r"\b", content), lines 111
RECURSIVE SearchImport(_, _)
SearchImport(content, name) ==
    IF Len(content) < Len(ImportStmt(name)) THEN FALSE
    ELSE \/ IsPrefix(ImportStmt(name), content) /\ BoundaryAfter(content, Len(ImportStmt(name)))
         \/ SearchImport(Tail(content), name)

\* a match of the pattern of line 143 on one line (re.MULTILINE: ^ and $ are
\* the line's ends): group(1) when the line matches, "none" otherwise
ImportLineMatch(line, name) ==
    IF IsPrefix(TestablePrefix \o ImportStmt(name), line)
       /\ BoundaryAfter(line, Len(TestablePrefix \o ImportStmt(name)))
    THEN [matched |-> TRUE, prefix |-> TestablePrefix]
    ELSE IF IsPrefix(ImportStmt(name), line) /\ BoundaryAfter(line, Len(ImportStmt(name)))
    THEN [matched |-> TRUE, prefix |-> <<>>]
    ELSE [matched |-> FALSE, prefix |-> <<>>]

\* the loop of lines 149-153 over the matches found in the content as read:
\* every matched line is replaced, wherever its text occurs in the content
\* updated so far
RECURSIVE ReplaceMatches(_, _, _, _)
ReplaceMatches(updated, lines, old_import, new_import) ==
    IF lines = <<>> THEN updated
    ELSE LET m == ImportLineMatch(Head(lines), old_import)
         IN  ReplaceMatches(
                 IF m.matched
                 THEN StrReplace(updated, Head(lines), m.prefix \o ImportStmt(new_import))
                 ELSE updated,
                 Tail(lines), old_import, new_import)

UpdatedSwift(content) ==
    ReplaceMatches(content, SplitLines(content), OLD_IMPORT, NEW_IMPORT)

\* line 198
UpdatedBazel(content) == StrReplace(content, OLD_BAZEL_DEP, NEW_BAZEL_DEP)

\* MigrationStats
EmptyStats ==
    [swift_files_found |-> 0, swift_files_updated |-> 0,
     bazel_files_found |-> 0, bazel_files_updated |-> 0,
     errors |-> <<>>, warnings |-> <<>>, skipped_files |-> <<>>]

HasOldImport(content) == SearchImport(content, OLD_IMPORT)
HasOldDep(content) == Contains(content, OLD_BAZEL_DEP)

\* find_swift_files_with_import, lines 100-115
find_swift_files_with_import ==
    SelectSeq(WalkOrder, LAMBDA f : f \in SwiftFiles /\ HasOldImport(disk[f]))

\* find_bazel_files_with_dependency, lines 118-132
find_bazel_files_with_dependency ==
    SelectSeq(WalkOrder, LAMBDA f : f \in BazelFiles /\ HasOldDep(disk[f]))

\* control flow of main (lines 291-325): the next loop iteration to run from
\* iteration i of the loop pc on; after the Swift files the Bazel files,
\* then the report
MigPos(sw, bz, pc, i) ==
    IF pc = "swift" /\ i <= Len(sw) THEN [pc |-> "swift", pos |-> i]
    ELSE IF pc = "swift" /\ Len(bz) >= 1 THEN [pc |-> "bazel", pos |-> 1]
    ELSE IF pc = "bazel" /\ i <= Len(bz) THEN [pc |-> "bazel", pos |-> i]
    ELSE [pc |-> "report", pos |-> 1]

\* main, lines 266-288: the two searches
FindFiles ==
    /\ mpc = "start"
    /\ swift_files' = find_swift_files_with_import
    /\ bazel_files' = find_bazel_files_with_dependency
    /\ stats' = [EmptyStats EXCEPT !.swift_files_found = Len(find_swift_files_with_import),
                                   !.bazel_files_found = Len(find_bazel_files_with_dependency)]
    /\ mpc' = MigPos(find_swift_files_with_import, find_bazel_files_with_dependency, "swift", 1).pc
    /\ mpos' = MigPos(find_swift_files_with_import, find_bazel_files_with_dependency, "swift", 1).pos
    /\ UNCHANGED <<disk, preRun, backups, writes, run, mode, now, backups_made, faults,
                   pending, choice, answers, migOthers>>

\* create_backup without the copy of line 96
create_backup_NoCopy(f) ==
    /\ backups' = backups
    /\ backups_made' = backups_made

\* create_backup, lines 86-97: copy the file to <rel_path>.<stamp>.bak; a
\* backup of the same file with the same stamp is overwritten
create_backup(f) ==
    /\ backups' = {b \in backups : ~(b.file = f /\ b.stamp = now)}
                    \cup {[file |-> f, stamp |-> now, content |-> disk[f]]}
    /\ backups_made' = backups_made + 1

\* an exception inside an update ends the whole run
AfterFailure_Abort(sw, bz, pc, i) == [pc |-> "report", pos |-> 1]

\* lines 180-182 / 220-222: the exception is recorded, the update returns
\* False and the loop of main goes on with the next file
AfterFailure(sw, bz, pc, i) == MigPos(sw, bz, pc, i + 1)

\* stats.add_error(file_path, f"Error updating file: {e}"); the failed
\* operation stands for the exception's text
add_error(f, fault) == [stats EXCEPT !.errors = Append(@, <<f, fault>>)]

\* update_swift_import (lines 135-171) and update_bazel_dependency (lines
\* 185-211) up to the backup; `found` is the test of line 193 (TRUE for a
\* Swift file).  fault: what raises, if anything ("read", "backup")
PrepareUpdate(pc, f, updated, found, fault) ==
    LET content == disk[f]
        goOn == MigPos(swift_files, bazel_files, pc, mpos + 1)
        failed == AfterFailure(swift_files, bazel_files, pc, mpos)
    IN  /\ pending = <<>>
        /\ fault # "none" => faults < MaxFaults
        /\ fault = "backup" => (found /\ content # updated /\ mode # "dry_run")
        /\ faults' = IF fault = "none" THEN faults ELSE faults + 1
        /\ choice' = IF found /\ content # updated /\ mode # "dry_run" /\ fault = "none"
                      THEN choice ELSE ""
        /\ IF fault = "read"
           THEN /\ stats' = add_error(f, fault)
                /\ mpc' = failed.pc /\ mpos' = failed.pos
                /\ UNCHANGED <<backups, backups_made, pending>>
           ELSE IF ~found
           THEN /\ stats' = [stats EXCEPT !.warnings = Append(@, <<f, "not found in file">>)]
                /\ mpc' = goOn.pc /\ mpos' = goOn.pos
                /\ UNCHANGED <<backups, backups_made, pending>>
           ELSE IF content = updated
           THEN /\ stats' = [stats EXCEPT !.warnings = Append(@, <<f, "no changes were made">>)]
                /\ mpc' = goOn.pc /\ mpos' = goOn.pos
                /\ UNCHANGED <<backups, backups_made, pending>>
           ELSE IF mode = "dry_run"
           THEN /\ mpc' = goOn.pc /\ mpos' = goOn.pos
                /\ UNCHANGED <<backups, backups_made, pending, stats>>
           ELSE IF fault = "backup"
           THEN /\ stats' = add_error(f, fault)
                /\ mpc' = failed.pc /\ mpos' = failed.pos
                /\ UNCHANGED <<backups, backups_made, pending>>
           ELSE /\ create_backup(f)
                /\ pending' = <<updated>>
                /\ UNCHANGED <<stats, mpc, mpos>>
        /\ UNCHANGED <<disk, preRun, writes, dry_run, run, mode, now, swift_files,
                       bazel_files, answers, parserVars, fixerVars,
                       resolverVars, logVars, classifyVars, xpcVars, buildVars>>

\* update_swift_import for the file the loop of main is at (lines 295-296,
\* 318-319), up to the backup
update_swift_import ==
    /\ mpc = "swift"
    /\ mpos <= Len(swift_files)
    /\ mode = "interactive" => choice = "y"
    /\ \E fault \in {"none", "read", "backup"} :
         PrepareUpdate("swift", swift_files[mpos], UpdatedSwift(disk[swift_files[mpos]]),
                       TRUE, fault)

\* update_bazel_dependency for the file the loop of main is at (lines
\* 298-299, 323-324), up to the backup
update_bazel_dependency ==
    /\ mpc = "bazel"
    /\ mpos <= Len(bazel_files)
    /\ mode = "interactive" => choice = "y"
    /\ \E fault \in {"none", "read", "backup"} :
         PrepareUpdate("bazel", bazel_files[mpos], UpdatedBazel(disk[bazel_files[mpos]]),
                       HasOldDep(disk[bazel_files[mpos]]), fault)

\* lines 173-178 / 213-218 and the counting of main (lines 320, 325): the
\* updated content is written.  open(file, "w") may raise and leave the file
\* ("open"), or the write may raise after open truncated it ("write")
write_updated ==
    /\ pending # <<>>
    /\ LET f == IF mpc = "swift" THEN swift_files[mpos] ELSE bazel_files[mpos]
           counter == IF mpc = "swift" THEN "swift_files_updated" ELSE "bazel_files_updated"
           goOn == MigPos(swift_files, bazel_files, mpc, mpos + 1)
           failed == AfterFailure(swift_files, bazel_files, mpc, mpos)
       IN  \E fault \in {"none", "open", "write"} :
             /\ fault # "none" => faults < MaxFaults
             /\ faults' = IF fault = "none" THEN faults ELSE faults + 1
             /\ IF fault = "none"
                THEN /\ disk' = [disk EXCEPT ![f] = pending[1]]
                     /\ writes' = [writes EXCEPT ![f] = @ + 1]
                     /\ stats' = [stats EXCEPT ![counter] = @ + 1]
                     /\ mpc' = goOn.pc /\ mpos' = goOn.pos
                ELSE /\ disk' = IF fault = "write" THEN [disk EXCEPT ![f] = <<>>] ELSE disk
                     /\ stats' = add_error(f, fault)
                     /\ mpc' = failed.pc /\ mpos' = failed.pos
                     /\ UNCHANGED writes
    /\ pending' = <<>>
    /\ choice' = ""
    /\ UNCHANGED <<preRun, backups, dry_run, run, mode, now, swift_files, bazel_files,
                   backups_made, answers, parserVars, fixerVars,
                   resolverVars, logVars, classifyVars, xpcVars, buildVars>>

\* the script is run again with the same arguments on the project the first
\* run left, in the same second or a later one
MigrateAgain ==
    /\ mpc = "report"
    /\ run = 1
    /\ run' = 2
    /\ now' \in {now, now + 1}
    /\ preRun' = disk
    /\ writes' = [f \in DOMAIN writes |-> 0]
    /\ backups_made' = 0
    /\ stats' = EmptyStats
    /\ swift_files' = <<>>
    /\ bazel_files' = <<>>
    /\ mpc' = "start"
    /\ mpos' = 1
    /\ UNCHANGED <<disk, backups, mode, faults, pending, choice, answers, migOthers>>

\* the projects the migration is run on
SwiftLineSamples ==
    { ImportStmt(OLD_IMPORT), TestablePrefix \o ImportStmt(OLD_IMPORT),
      ImportStmt(NEW_IMPORT), <<" ">> \o ImportStmt(OLD_IMPORT) }

SwiftContents ==
    {JoinLines(ls) : ls \in (SeqsUpTo(SwiftLineSamples, MaxSwiftLines) \ {<<>>})}

BazelContents ==
    { <<"deps", "\"">> \o OLD_BAZEL_DEP \o <<"\"">>,
      <<"deps", "\"">> \o NEW_BAZEL_DEP \o <<"\"">>,
      <<"deps", "\"">> \o OLD_BAZEL_DEP \o <<":", "CoreTypes", "\"", "\"">> \o OLD_BAZEL_DEP \o <<"\"">>,
      <<"deps">> }

MigInitWith(Modes) ==
    /\ disk \in {d \in [ProjectFiles -> SwiftContents \cup BazelContents] :
                    /\ \A f \in SwiftFiles : d[f] \in SwiftContents
                    /\ \A f \in BazelFiles : d[f] \in BazelContents}
    /\ preRun = disk
    /\ backups = {}
    /\ writes = [f \in ProjectFiles |-> 0]
    /\ dry_run = FALSE
    /\ run = 1
    /\ mode \in Modes
    /\ now = 0
    /\ swift_files = <<>>
    /\ bazel_files = <<>>
    /\ stats = EmptyStats
    /\ backups_made = 0
    /\ mpc = "start"
    /\ mpos = 1
    /\ pending = <<>>
    /\ choice = ""
    /\ answers = <<>>
    /\ faults = 0
    /\ ParserIdle
    /\ FixerIdle
    /\ ResolverIdle
    /\ LogIdle
    /\ ClassifyIdle
    /\ XpcIdle
    /\ BuildIdle

MigInit == MigInitWith({"dry_run", "apply_all"})

MigNext ==
    \/ FindFiles
    \/ update_swift_import
    \/ update_bazel_dependency
    \/ write_updated
    \/ MigrateAgain

SpecMigration == MigInit /\ [][MigNext]_vars

\* ---- --interactive: main, lines 301-312 ----
\* the loop an answer of 'q' leaves with break: the loop of the BUILD.bazel
\* files still follows the loop of the Swift files
AfterQuit(sw, bz, pc) ==
    MigPos(sw, bz, pc, Len(IF pc = "swift" THEN sw ELSE bz) + 1)

\* interactive_update, lines 230-244: the prompt for the file the loop is
\* at and the branch of the answer; the update of a confirmed file is
\* update_swift_import or update_bazel_dependency
interactive_update ==
    /\ mode = "interactive"
    /\ mpc \in {"swift", "bazel"}
    /\ choice = ""
    /\ pending = <<>>
    /\ LET files == IF mpc = "swift" THEN swift_files ELSE bazel_files
           next == MigPos(swift_files, bazel_files, mpc, mpos + 1)
           quit == AfterQuit(swift_files, bazel_files, mpc)
       IN  \E c \in {"y", "n", "q"} :
             /\ answers' = Append(answers, c)
             /\ choice' = IF c = "y" THEN "y" ELSE ""
             /\ stats' = IF c = "n"
                          THEN [stats EXCEPT !.skipped_files =
                                   Append(@, <<files[mpos], "Skipped by user">>)]
                          ELSE stats
             /\ mpc' = CASE c = "q" -> quit.pc [] c = "n" -> next.pc [] OTHER -> mpc
             /\ mpos' = CASE c = "q" -> quit.pos [] c = "n" -> next.pos [] OTHER -> mpos
    /\ UNCHANGED <<disk, preRun, backups, writes, run, mode, now, swift_files, bazel_files,
                   backups_made, faults, pending, migOthers>>

InteractiveInit == MigInitWith({"interactive"})

InteractiveNext ==
    \/ FindFiles
    \/ interactive_update
    \/ update_swift_import
    \/ update_bazel_dependency
    \/ write_updated

SpecInteractive == InteractiveInit /\ [][InteractiveNext]_vars

(***************************************************************************)
(* ErrorParser.parse run on its own (src/error_parser.py, lines 35-70).    *)
(* buildLog holds the sections re.findall returns, in order.               *)
(***************************************************************************)
MaxSections == 3     \* sections per build log of the parser runs

ParserMessages == {MsgMissingXPC, MsgSendableWarn, MsgOther}

\* first lines "Sources/A.swift:12: error: x" (third field " error") and
\* "Sources/A.swift:x:1: note" (second field "x"): int() raises ValueError
BadColumn == [nf |-> 4, file |-> "Sources/A.swift", line |-> 12, col |-> 0,
              lineInt |-> TRUE, colInt |-> FALSE, msg |-> MsgOther]
BadLine == [nf |-> 4, file |-> "Sources/A.swift", line |-> 0, col |-> 1,
            lineInt |-> FALSE, colInt |-> TRUE, msg |-> MsgOther]
\* a first line without ':' ("Sources/ directory ...")
TooShort == [nf |-> 1, file |-> "Sources/A.swift", line |-> 0, col |-> 0,
             lineInt |-> FALSE, colInt |-> FALSE, msg |-> MsgOther]

\* messages that match several patterns, or a pattern and "warning:"
OverlapMessages == {MsgGeneralWarn, MsgUnwrapAndBinding, MsgMemberWarn}

ParserSections ==
    {Section(f, l, m) : f \in SourceFiles, l \in 1..2, m \in ParserMessages}
        \cup {Section(f, 1, m) : f \in SourceFiles, m \in OverlapMessages}
        \cup {BadColumn, BadLine, TooShort}

DiskIdle ==
    /\ disk = <<>>
    /\ preRun = <<>>
    /\ backups = {}
    /\ writes = <<>>
    /\ dry_run = FALSE
    /\ run = 1
    /\ faults = 0

\* parser = ErrorParser(build_output_file); parser.parse()
RunParse ==
    /\ parse_status = "idle"
    /\ LET st == parse(buildLog)
       IN  /\ error_groups' = st.eg
           /\ warning_groups' = st.wg
           /\ file_errors' = st.fe
           /\ parse_status' = st.status
    /\ UNCHANGED <<buildLog, summary, parserOthers>>

\* the place of a pair among pairs sorted ascending on the count (stable)
RECURSIVE InsertByCount(_, _)
InsertByCount(sorted, e) ==
    IF sorted = <<>> THEN <<e>>
    ELSE IF sorted[Len(sorted)][2] <= e[2] THEN Append(sorted, e)
    ELSE Append(InsertByCount(SubSeq(sorted, 1, Len(sorted) - 1), e), sorted[Len(sorted)])

\* the place of a pair among pairs sorted descending on the count (stable)
RECURSIVE InsertByCountDesc(_, _)
InsertByCountDesc(sorted, e) ==
    IF sorted = <<>> THEN <<e>>
    ELSE IF sorted[Len(sorted)][2] >= e[2] THEN Append(sorted, e)
    ELSE Append(InsertByCountDesc(SubSeq(sorted, 1, Len(sorted) - 1), e), sorted[Len(sorted)])

\* s[:n]
FirstN(s, n) == SubSeq(s, 1, IF n < Len(s) THEN n ELSE Len(s))

Reverse(s) == [k \in 1..Len(s) |-> s[Len(s) + 1 - k]]

RECURSIVE SortByCount(_)
SortByCount(s) ==
    IF s = <<>> THEN <<>>
    ELSE InsertByCount(SortByCount(SubSeq(s, 1, Len(s) - 1)), s[Len(s)])

\* sorted(..., key=lambda x: x[1])[::-1]: the ascending order reversed, which
\* turns the order of pairs of equal count around
SortByCountDesc_Reversed(s) == Reverse(SortByCount(s))

\* sorted(..., key=lambda x: x[1], reverse=True) on <<name, count>> pairs:
\* descending on the count, pairs of equal count in their order in s
RECURSIVE SortByCountDesc(_)
SortByCountDesc(s) ==
    IF s = <<>> THEN <<>>
    ELSE InsertByCountDesc(SortByCountDesc(SubSeq(s, 1, Len(s) - 1)), s[Len(s)])

\* line 100 with the ascending sort reversed
RankFiles_Reversed(pairs) == FirstN(SortByCountDesc_Reversed(pairs), 10)

\* line 100: sorted(file_issue_count.items(), key=..., reverse=True)[:10]
RankFiles(pairs) == FirstN(SortByCountDesc(pairs), 10)

\* the <<key, len(list)>> pairs of d.items(), in the dict's order
ItemCounts(d) == [k \in 1..Len(d.keys) |-> <<d.keys[k], Len(d.at[d.keys[k]])>>]

\* print_summary, lines 82-101: the three totals, the groups in the order
\* of the dicts, and the ten files with the most issues
print_summary ==
    /\ parse_status \in {"done", "aborted"}
    /\ summary = <<>>
    /\ summary' =
          [files_with_issues |-> Len(file_errors.keys),
           error_types |-> Len(error_groups.keys),
           warning_types |-> Len(warning_groups.keys),
           error_groups |-> ItemCounts(error_groups),
           warning_groups |-> ItemCounts(warning_groups),
           files |-> RankFiles(ItemCounts(file_errors))]
    /\ UNCHANGED <<buildLog, error_groups, warning_groups, file_errors, parse_status,
                   parserOthers>>

ParserInit ==
    /\ buildLog \in SeqsUpTo(ParserSections, MaxSections)
    /\ error_groups = EmptyDict(Categories)
    /\ warning_groups = EmptyDict(Categories)
    /\ file_errors = EmptyDict(SourceFiles)
    /\ parse_status = "idle"
    /\ summary = <<>>
    /\ DiskIdle
    /\ FixerIdle
    /\ MigIdle
    /\ ResolverIdle
    /\ LogIdle
    /\ ClassifyIdle
    /\ XpcIdle
    /\ BuildIdle

ParserNext ==
    \/ RunParse
    \/ print_summary

SpecParser == ParserInit /\ [][ParserNext]_vars

(***************************************************************************)
(* parse_build_output (src/tools/scripts/parse_build_errors.py).           *)
(* A log line is a text; LineTable gives what the regexes find in it.      *)
(***************************************************************************)
MaxLogLines == 3     \* lines of the build output file

TargetA == "//Sources/A:A"
TargetB == "//Sources/B:B"
TargetNames == {TargetA, TargetB, "Unassigned"}

LnTargetA == "INFO: From Compiling Swift module //Sources/A:A:"
LnTargetB == "INFO: From Compiling Swift module //Sources/B:B:"
LnErrA == "Sources/a.swift:1:2: error: x"
LnErrB == "Sources/b.swift:3:4: error: y"
LnWarnA == "Sources/a.swift:1:2: warning: w"
LnFatalA == "Sources/a.swift:5:6: fatal error: z"
LnNonStd == "  ld: error: linker failed"
LnBlank == ""

\* target: group(1) of target_pattern, "" when it does not match;
\* kind: "error" | "fatal" when error_pattern matches (its group 4),
\*       "warning" when warning_pattern matches, "" otherwise;
\* has_error: "error:" in line; nonstd: group(1) of r'error: (.+)$';
\* strip: line.strip()
LineInfo(target, kind, file, line, column, message, has_error, nonstd, strip) ==
    [target |-> target, kind |-> kind, file |-> file, line |-> line,
     column |-> column, message |-> message, has_error |-> has_error,
     nonstd |-> nonstd, strip |-> strip]

LineTable ==
    LnTargetA :> LineInfo(TargetA, "", "", "", "", "", FALSE, "", LnTargetA)
    @@ LnTargetB :> LineInfo(TargetB, "", "", "", "", "", FALSE, "", LnTargetB)
    @@ LnErrA :> LineInfo("", "error", "Sources/a.swift", "1", "2", "x", TRUE, "x", LnErrA)
    @@ LnErrB :> LineInfo("", "error", "Sources/b.swift", "3", "4", "y", TRUE, "y", LnErrB)
    @@ LnWarnA :> LineInfo("", "warning", "Sources/a.swift", "1", "2", "w", FALSE, "", LnWarnA)
    @@ LnFatalA :> LineInfo("", "fatal", "Sources/a.swift", "5", "6", "z", TRUE, "z", LnFatalA)
    @@ LnNonStd :> LineInfo("", "", "", "", "", "", TRUE, "linker failed", "ld: error: linker failed")
    @@ LnBlank :> LineInfo("", "", "", "", "", "", FALSE, "", "")

LogLineSamples == DOMAIN LineTable

Min(a, b) == IF a < b THEN a ELSE b
Max(a, b) == IF a > b THEN a ELSE b

\* s[:n]
Take(s, n) == SubSeq(s, 1, Min(n, Len(s)))

\* the loop `for j in range(max(0, i-r), min(len(lines), i+r+1))`: the
\* stripped non-empty lines around line i (0-based), line i left out
RECURSIVE ContextFrom(_, _, _, _)
ContextFrom(lines, i, j, hi) ==
    IF j >= hi THEN <<>>
    ELSE (IF j # i /\ LineTable[lines[j + 1]].strip # ""
          THEN <<LineTable[lines[j + 1]].strip>> ELSE <<>>)
         \o ContextFrom(lines, i, j + 1, hi)

Context(lines, i, r) == ContextFrom(lines, i, Max(0, i - r), Min(Len(lines), i + r + 1))

\* an element of targets[t]['errors'] or ['warnings']; additional_info ""
\* and processed_line -1 stand for a missing key
Entry(file, line, column, message, context, processed_line) ==
    [file |-> file, line |-> line, column |-> column, message |-> message,
     context |-> context, additional_info |-> "", processed_line |-> processed_line]

\* defaultdict(lambda: {'errors': [], 'warnings': []}): keys in insertion order
EmptyTargets ==
    [keys |-> <<>>, at |-> [t \in TargetNames |-> [errors |-> <<>>, warnings |-> <<>>]]]

\* targets[t]: the key is created by the access
Touch(tg, t) == [tg EXCEPT !.keys = IF InSeq(t, @) THEN @ ELSE Append(@, t)]

AppendError(tg, t, e) == [Touch(tg, t) EXCEPT !.at[t].errors = Append(@, e)]
AppendWarning(tg, t, e) == [Touch(tg, t) EXCEPT !.at[t].warnings = Append(@, e)]

\* lines 45-67
ErrorBranch(tg, ct, lines, i) ==
    LET info == LineTable[lines[i + 1]]
    IN  IF info.kind \in {"error", "fatal"} /\ ct # ""
        THEN AppendError(tg, ct, Entry(info.file, info.line, info.column, info.message,
                                       Take(Context(lines, i, 5), 8), -1))
        ELSE tg

\* lines 69-91
WarningBranch(tg, ct, lines, i) ==
    LET info == LineTable[lines[i + 1]]
    IN  IF info.kind = "warning" /\ ct # ""
        THEN AppendWarning(tg, ct, Entry(info.file, info.line, info.column, info.message,
                                         Take(Context(lines, i, 5), 8), -1))
        ELSE tg

\* lines 93-119 with a new entry for every such line
NonStandardBranch_AlwaysNew(tg, ct, lines, i) ==
    LET info == LineTable[lines[i + 1]]
        context == Context(lines, i, 3)
    IN  IF ct # "" /\ info.has_error /\ info.kind = "" /\ info.target = "" /\ info.nonstd # ""
        THEN AppendError(tg, ct, Entry("unknown", "0", "0", info.nonstd,
                                       Take(context, 8), -1))
        ELSE tg

\* lines 93-119
NonStandardBranch(tg, ct, lines, i) ==
    LET info == LineTable[lines[i + 1]]
        context == Context(lines, i, 3)
        errs == tg.at[ct].errors
    IN  IF ct # "" /\ info.has_error /\ info.kind = "" /\ info.target = "" /\ info.nonstd # ""
        THEN IF errs # <<>>
             THEN [Touch(tg, ct) EXCEPT
                      !.at[ct].errors[Len(errs)].additional_info = info.nonstd,
                      !.at[ct].errors[Len(errs)].context = @ \o Take(context, 5)]
             ELSE AppendError(tg, ct, Entry("unknown", "0", "0", info.nonstd,
                                            Take(context, 8), -1))
        ELSE tg

\* after iteration i of a pass
AfterLine(ps, i) ==
    IF i + 1 < Len(log_lines) THEN [pass |-> ps, li |-> i + 1]
    ELSE [pass |-> IF ps = "first" THEN "second" ELSE "done", li |-> 0]

\* one iteration of the loop of lines 35-121
first_pass ==
    /\ pass = "first"
    /\ LET info == LineTable[log_lines[li + 1]]
       IN  IF info.target # ""
           THEN /\ current_target' = info.target
                /\ targets' = targets
           ELSE /\ current_target' = current_target
                /\ targets' = NonStandardBranch(
                                 WarningBranch(
                                    ErrorBranch(targets, current_target, log_lines, li),
                                    current_target, log_lines, li),
                                 current_target, log_lines, li)
    /\ pass' = AfterLine("first", li).pass
    /\ li' = AfterLine("first", li).li
    /\ UNCHANGED <<log_lines, logOthers>>

\* any(error.get('processed_line') == i for ... in targets.values() ...)
AlreadyProcessed(tg, i) ==
    \E k \in 1..Len(tg.keys) :
        \E e \in 1..Len(tg.at[tg.keys[k]].errors) :
            tg.at[tg.keys[k]].errors[e].processed_line = i

\* lines 137-146 without the search
TargetForFile_Unassigned(tg, file) == "Unassigned"

\* lines 137-146: the first target, in insertion order, that holds an error
\* or a warning of the file; "Unassigned" when there is none
TargetForFile(tg, file) ==
    LET owns(t) == \/ \E e \in 1..Len(tg.at[t].errors) : tg.at[t].errors[e].file = file
                   \/ \E w \in 1..Len(tg.at[t].warnings) : tg.at[t].warnings[w].file = file
        hits == {k \in 1..Len(tg.keys) : owns(tg.keys[k])}
    IN  IF hits = {} THEN "Unassigned"
        ELSE tg.keys[CHOOSE k \in hits : \A h \in hits : k <= h]

\* one iteration of the loop of lines 127-163
second_pass ==
    /\ pass = "second"
    /\ LET info == LineTable[log_lines[li + 1]]
       IN  targets' =
             IF info.has_error /\ ~AlreadyProcessed(targets, li) /\ info.kind = "error"
             THEN AppendError(targets, TargetForFile(targets, info.file),
                              Entry(info.file, info.line, info.column, info.message,
                                    Take(Context(log_lines, li, 5), 8), li))
             ELSE targets
    /\ pass' = AfterLine("second", li).pass
    /\ li' = AfterLine("second", li).li
    /\ UNCHANGED <<log_lines, current_target, logOthers>>

LogInitWith(Logs) ==
    /\ log_lines \in Logs
    /\ targets = EmptyTargets
    /\ current_target = ""
    /\ li = 0
    /\ pass = "first"
    /\ DiskIdle
    /\ ParserIdle
    /\ FixerIdle
    /\ MigIdle
    /\ ResolverIdle
    /\ ClassifyIdle
    /\ XpcIdle
    /\ BuildIdle

LogInit == LogInitWith({s \in SeqsUpTo(LogLineSamples, MaxLogLines) : Len(s) >= 1})

LogNext ==
    \/ first_pass
    \/ second_pass

SpecBuildLog == LogInit /\ [][LogNext]_vars

\* build outputs in which an error of a target is followed by up to
\* MaxLogLines further lines
FollowingLines == {LnNonStd, LnErrA, LnBlank}

LogTailInit ==
    LogInitWith({<<LnTargetA, LnErrA>> \o tail : tail \in SeqsUpTo(FollowingLines, MaxLogLines)})

SpecBuildLogTail == LogTailInit /\ [][LogNext]_vars

(***************************************************************************)
(* BatchErrorResolver (src/Scripts/batch_error_resolver.py).               *)
(* A file's content is one sequence of tokens; a whitespace character is a *)
(* token of its own, and "XPCSecurityError" is the two tokens "XPC",       *)
(* "SecurityError", so that the substring tests of the code are tests on   *)
(* contiguous tokens.                                                      *)
(***************************************************************************)
ModelFile == "Sources/Model.swift"
AdapterFile == "Sources/CoreTypesImplementation/ErrorAdapter.swift"
EnumFile == "Sources/CoreErrors/SecurityError.swift"
ResolverFiles == {ModelFile, AdapterFile, EnumFile}

\* content of a path that does not exist
NoFile == <<"<no such file>">>
Exists(f) == f \in DOMAIN disk /\ disk[f] # NoFile

IsWord(t) == t \in {"Foo", "Adapter", "SecurityError", "Error", "e", "x", "Foundation"}

\* str.find(sub, start): 0-based position, -1 when absent
Find(s, sub, start) ==
    LET st == IF start < 0 THEN Max(0, Len(s) + start) ELSE start
        hits == {k \in st..(Len(s) - Len(sub)) : SubSeq(s, k + 1, k + Len(sub)) = sub}
    IN  IF hits = {} THEN -1 ELSE CHOOSE k \in hits : \A h \in hits : k <= h

\* s[a:b], negative positions counted from the end
PySlice(s, a, b) ==
    LET norm(n) == IF n < 0 THEN Max(0, Len(s) + n) ELSE Min(n, Len(s))
    IN  IF norm(a) >= norm(b) THEN <<>> ELSE SubSeq(s, norm(a) + 1, norm(b))

\* length of the run of whitespace s starts with
RECURSIVE WsRun(_)
WsRun(s) == IF s # <<>> /\ IsWs(s[1]) THEN 1 + WsRun(Tail(s)) ELSE 0

AllWs(s, a, b) == \A k \in a..b : IsWs(s[k])

\* ---- fix_swift6_issues, lines 72-126 ----
InitDecoder == "init(from decoder: Decoder)"
Preconcurrency == "@preconcurrency"
Available ==
    "@available(*, deprecated, message: \\\"Will need to be refactored for Swift 6\\\")"
TaskMain == "Task { @MainActor in"
PublicInit == <<"public", " ", InitDecoder>>

\* re.sub(r"(\s+)public init\(from decoder: Decoder\)", ...), lines 89-91
RECURSIVE SubDecoder(_)
SubDecoder(s) ==
    IF s = <<>> THEN <<>>
    ELSE IF IsWs(s[1])
    THEN LET ws == SubSeq(s, 1, WsRun(s))
             rest == SubSeq(s, WsRun(s) + 1, Len(s))
         IN  IF IsPrefix(PublicInit, rest)
             THEN ws \o <<Preconcurrency, "\n">> \o ws \o <<Available, "\n">> \o ws
                     \o PublicInit \o SubDecoder(SubSeq(rest, Len(PublicInit) + 1, Len(rest)))
             ELSE ws \o SubDecoder(rest)
    ELSE <<s[1]>> \o SubDecoder(Tail(s))

Indent6 == <<" ", " ", " ", " ", " ", " ">>

\* the replacement text of lines 100-102
TaskReplacement ==
    << "// TODO: Swift 6 compatibility - refactor actor isolation", "\n" >>
        \o Indent6 \o <<"// Using MainActor.run instead of ", TaskMain, " ", "}", "\n">>
        \o Indent6 \o <<"MainActor.run {">>

\* re.sub(r"(struct \w+)(?:: Codable)", r"\1: Codable, Sendable", ...), lines 111-113
RECURSIVE SubStructCodable(_)
SubStructCodable(s) ==
    IF s = <<>> THEN <<>>
    ELSE IF Len(s) >= 6 /\ s[1] = "struct" /\ s[2] = " " /\ IsWord(s[3])
            /\ SubSeq(s, 4, 6) = <<":", " ", "Codable">>
    THEN SubSeq(s, 1, 6) \o <<",", " ", "Sendable">>
            \o SubStructCodable(SubSeq(s, 7, Len(s)))
    ELSE <<s[1]>> \o SubStructCodable(Tail(s))

\* body of the loop of fix_swift6_issues: the content to write and fixes_needed
Swift6Fix(content) ==
    LET c1 == IF Contains(content, <<InitDecoder>>) /\ ~Contains(content, <<Preconcurrency>>)
              THEN SubDecoder(content) ELSE content
        c2 == IF Contains(c1, <<TaskMain>>)
              THEN StrReplace(c1, <<TaskMain>>, TaskReplacement) ELSE c1
        c3 == IF Contains(c2, <<"struct">>) /\ ~Contains(c2, <<"Sendable">>)
                 /\ Contains(c2, <<"Codable">>)
              THEN SubStructCodable(c2) ELSE c2
    IN  [content |-> c3, changed |-> c1 # content \/ c2 # c1 \/ c3 # c2]

\* ---- fix_error_mapping_issues, lines 128-195 ----
missing_functions == <<"externalErrorToCoreError", "mapExternalToCoreError">>

\* the text of a function of missing_functions
FunctionImpl(func_name) ==
    << "\n", "public func ", func_name, "(_ error: Error) -> ", "CoreErrors", ".",
       "SecurityError", " ", "{", " ", "return", " ", "}", "\n" >>

\* sep.join(parts)
RECURSIVE Join(_, _)
Join(sep, parts) ==
    IF parts = <<>> THEN <<>>
    ELSE IF Len(parts) = 1 THEN parts[1]
    ELSE parts[1] \o sep \o Join(sep, Tail(parts))

ErrorMappingFix(content) ==
    LET names == SelectSeq(missing_functions, LAMBDA n : ~Contains(content, <<n>>))
        functions_to_add == [i \in 1..Len(names) |-> FunctionImpl(names[i])]
        joined == Join(<<"\n">>, functions_to_add)
        stripped == Strip(content)
    IN  [content |-> IF functions_to_add = <<>> THEN content
                     ELSE IF stripped # <<>> /\ stripped[Len(stripped)] = "}"
                     THEN PySlice(content, 0, -1) \o joined \o <<"\n", "}">>
                     ELSE content \o <<"\n">> \o joined,
         changed |-> functions_to_add # <<>>]

\* ---- fix_namespace_conflicts, lines 197-259 ----
Import(name) == <<"import", " ", name>>
QualifiedSecurityError == <<"SecurityProtocolsCore", ".", "SecurityError">>
AliasDecl == <<"typealias SPCSecurityError = ">> \o QualifiedSecurityError
AliasText ==
    <<"\n", "\n", "// Type alias to disambiguate ", "SecurityError", " types", "\n">>
        \o AliasDecl \o <<"\n">>

\* lines 211-215
SecurityRelated(content) ==
    \/ Contains(content, <<"SecurityProtocolsCore">>)
    \/ Contains(content, <<"XPCProtocolsCore">>)
    \/ Contains(content, <<"SecurityError">>)
    \/ Contains(content, <<"XPC", "SecurityError">>)

\* lines 225-239
AddAlias(content) ==
    IF /\ Contains(content, <<"SecurityError">>)
       /\ ~Contains(content, QualifiedSecurityError)
       /\ Contains(content, Import("SecurityProtocolsCore"))
       /\ Contains(content, Import("CoreErrors"))
       /\ ~Contains(content, AliasDecl)
    THEN LET first == Find(content, <<"import", " ">>, 0)
             blank == Find(content, <<"\n", "\n">>, first)
             import_section_end == IF blank = -1 THEN Find(content, <<"\n">>, first) ELSE blank
         IN  PySlice(content, 0, import_section_end) \o AliasText
                \o PySlice(content, import_section_end, Len(content))
    ELSE content

\* lines 242-251
AddCoreErrorsImport(content) ==
    IF /\ Contains(content, <<"XPC", "SecurityError">>)
       /\ ~Contains(content, Import("CoreErrors"))
       /\ Find(content, <<"import", " ">>, 0) # -1
    THEN LET next_line == Find(content, <<"\n">>, Find(content, <<"import", " ">>, 0))
         IN  PySlice(content, 0, next_line + 1) \o Import("CoreErrors") \o <<"\n">>
                \o PySlice(content, next_line + 1, Len(content))
    ELSE content

NamespaceFix(content) ==
    LET c1 == AddAlias(content)
        c2 == AddCoreErrorsImport(c1)
    IN  [content |-> c2, changed |-> SecurityRelated(content) /\ (c1 # content \/ c2 # c1)]

\* ---- fix_missing_error_cases, lines 261-348 ----
\* error_cases_to_add with error_type_locations
ErrorCaseTable ==
    << [type |-> "CoreErrors.SecurityError", file |-> EnumFile,
        cases |-> <<"accessError", "bookmarkError", "bookmarkCreationFailed",
                    "bookmarkResolutionFailed">>],
       [type |-> "SecureBytesError", file |-> "Sources/SecureBytes/SecureBytesError.swift",
        cases |-> <<"memoryAllocationFailed">>],
       [type |-> "XPCSecurityError", file |-> "Sources/XPCProtocolsCore/XPCProtocolsCore.swift",
        cases |-> <<"notImplemented">>] >>

\* tokens that hold the character
HasUnderscore(t) == t \in {"access_denied", "(_ error: Error) -> "}
HasParen(t) == t \in {"(", InitDecoder, Available, "(_ error: Error) -> "}

\* re.search(r"enum\s+(\w+)(?:\s*:.*?)?\s*\{", content) matches at token k
EnumMatchAt(s, k) ==
    /\ s[k] = "enum"
    /\ \E w \in (k + 2)..Len(s) :
          /\ AllWs(s, k + 1, w - 1)
          /\ IsWord(s[w])
          /\ \E j \in (w + 1)..Len(s) :
                /\ s[j] = "{"
                /\ \/ AllWs(s, w + 1, j - 1)
                   \/ \E c \in (w + 1)..(j - 1) :
                         /\ AllWs(s, w + 1, c - 1)
                         /\ s[c] = ":"
                         /\ \E d \in c..(j - 1) :
                               /\ \A n \in (c + 1)..d : s[n] # "\n"
                               /\ AllWs(s, d + 1, j - 1)

\* enum_match.start(), -1 when there is no match
EnumStart(s) ==
    LET hits == {k \in 1..Len(s) : EnumMatchAt(s, k)}
    IN  IF hits = {} THEN -1 ELSE (CHOOSE k \in hits : \A h \in hits : k <= h) - 1

\* re.search(r"(\s+)case", enum_content): group(1), "  " when no match
Indent(enum_content) ==
    LET hits == {k \in 2..Len(enum_content) : enum_content[k] = "case" /\ IsWs(enum_content[k - 1])}
    IN  IF hits = {} THEN <<" ", " ">>
        ELSE LET k == CHOOSE h \in hits : \A g \in hits : h <= g
                 start == CHOOSE a \in 1..(k - 1) :
                             /\ AllWs(enum_content, a, k - 1)
                             /\ (a = 1 \/ ~IsWs(enum_content[a - 1]))
             IN  SubSeq(enum_content, start, k - 1)

\* lines 316-329
CaseFormat(enum_content, case) ==
    IF \E k \in 1..Len(enum_content) : HasUnderscore(enum_content[k])
    THEN <<"case", " ", case>>
    ELSE IF \E k \in 1..Len(enum_content) : HasParen(enum_content[k])
    THEN <<"case", " ", case, "(", "reason: String", ")">>
    ELSE <<"case", " ", case>>

\* body of the loop of fix_missing_error_cases for the file of one error type
MissingCasesFix(content, cases) ==
    LET enum_start == EnumStart(content)
        enum_end == IF enum_start = -1 THEN -1 ELSE Find(content, <<"}">>, enum_start)
        enum_content == PySlice(content, enum_start, enum_end)
        missing == SelectSeq(cases, LAMBDA c : ~Contains(enum_content, <<c>>))
        added == [i \in 1..Len(missing) |->
                     <<"\n">> \o Indent(enum_content) \o CaseFormat(enum_content, missing[i])]
    IN  IF enum_start = -1 \/ enum_end = -1 \/ missing = <<>>
        THEN [content |-> content, changed |-> FALSE]
        ELSE [content |-> PySlice(content, 0, enum_end) \o Join(<<>>, added)
                             \o PySlice(content, enum_end, Len(content)),
              changed |-> TRUE]

\* ---- BatchErrorResolver.run, lines 45-61 ----
FixMethods == <<"swift6", "errormapping", "namespace", "missing_cases">>

\* the next method run() calls from the k-th test on, "done" after the last
RECURSIVE RunPos(_, _)
RunPos(fix, k) ==
    IF k > Len(FixMethods) THEN "done"
    ELSE IF fix = "all" \/ fix = FixMethods[k] THEN FixMethods[k]
    ELSE RunPos(fix, k + 1)

MethodIndex(m) == CHOOSE k \in 1..Len(FixMethods) : FixMethods[k] = m

\* the cases to add to a file, lines 288-292
CasesFor(f) ==
    LET hits == {k \in 1..Len(ErrorCaseTable) : ErrorCaseTable[k].file = f}
    IN  IF hits = {} THEN <<>> ELSE ErrorCaseTable[CHOOSE k \in hits : TRUE].cases

\* the loop body of the fix method m for the file f
FileFix(m, f, content) ==
    CASE m = "swift6" -> Swift6Fix(content)
      [] m = "errormapping" -> ErrorMappingFix(content)
      [] m = "namespace" -> NamespaceFix(content)
      [] m = "missing_cases" -> MissingCasesFix(content, CasesFor(f))

\* a fix method: every file of `files` whose fix changed something is
\* written (open(file_path, "w")) and joins modified_files
FixMethod(m, files) ==
    /\ rpc = m
    /\ LET changed == {f \in files : FileFix(m, f, disk[f]).changed}
       IN  /\ disk' = [f \in DOMAIN disk |->
                          IF f \in changed THEN FileFix(m, f, disk[f]).content ELSE disk[f]]
           /\ modified_files' = modified_files \cup changed
           /\ writes' = [f \in DOMAIN writes |-> IF f \in changed THEN writes[f] + 1
                                                 ELSE writes[f]]
    /\ rpc' = RunPos(fix_type, MethodIndex(m) + 1)
    /\ UNCHANGED <<preRun, dry_run, fix_type, resolverOthers>>

\* find_swift_files(self.sources_dir), lines 63-70
find_swift_files == {f \in ResolverFiles : Exists(f)}

fix_swift6_issues == FixMethod("swift6", find_swift_files)

\* the ErrorAdapter files under Sources/CoreTypesImplementation, lines 133-137
error_adapter_files == {f \in {AdapterFile} : Exists(f)}

fix_error_mapping_issues == FixMethod("errormapping", error_adapter_files)

fix_namespace_conflicts == FixMethod("namespace", find_swift_files)

\* the files of error_type_locations that exist, lines 288-292
located_files == {f \in find_swift_files : CasesFor(f) # <<>>}

fix_missing_error_cases == FixMethod("missing_cases", located_files)

\* inputs of the resolver runs
ImportLine(name) == Import(name) \o <<"\n">>

ModelHeaders ==
    { <<>>,
      ImportLine("Foundation"),
      ImportLine("SecurityProtocolsCore") \o ImportLine("CoreErrors") \o <<"\n">> }

ModelBodies ==
    { <<"x", "\n">>,
      <<"struct", " ", "Foo", ":", " ", "Codable", " ", "{", "\n", " ", " ">>
          \o PublicInit \o <<" ", "{", "}", "\n", "}", "\n">>,
      <<TaskMain, "\n", "}", "\n">>,
      <<"let", " ", "e", ":", " ", "SecurityError", "\n">>,
      <<"let", " ", "e", ":", " ", "XPC", "SecurityError", "\n">> }

ModelContents == {h \o b : h \in ModelHeaders, b \in ModelBodies}

AdapterContents ==
    { <<"struct", " ", "Adapter", " ", "{", "\n", "}">>,
      <<"struct", " ", "Adapter", " ", "{", "\n", "}", "\n">>,
      <<"x">> \o FunctionImpl("externalErrorToCoreError")
              \o FunctionImpl("mapExternalToCoreError") }

EnumContents ==
    { NoFile,
      <<"enum", " ", "SecurityError", ":", " ", "Error", " ", "{", "\n", " ", " ",
        "case", " ", "operationFailed", "(", "reason: String", ")", "\n", "}", "\n">>,
      <<"enum", " ", "SecurityError", " ", "{", " ", "case", " ", "access_denied", " ", "}">>,
      <<"struct", " ", "Foo", " ", "{", "}">> }

ResolverInit ==
    /\ disk \in {[f \in ResolverFiles |->
                    CASE f = ModelFile -> m [] f = AdapterFile -> a [] OTHER -> e] :
                 m \in ModelContents, a \in AdapterContents, e \in EnumContents}
    /\ preRun = disk
    /\ backups = {}
    /\ writes = [f \in ResolverFiles |-> 0]
    /\ dry_run \in BOOLEAN
    /\ run = 1
    /\ faults = 0
    /\ fix_type \in {"swift6", "errormapping", "namespace", "missing_cases", "all"}
    /\ modified_files = {}
    /\ rpc = RunPos(fix_type, 1)
    /\ ParserIdle
    /\ FixerIdle
    /\ MigIdle
    /\ LogIdle
    /\ ClassifyIdle
    /\ XpcIdle
    /\ BuildIdle

ResolverNext ==
    \/ fix_swift6_issues
    \/ fix_error_mapping_issues
    \/ fix_namespace_conflicts
    \/ fix_missing_error_cases

SpecResolver == ResolverInit /\ [][ResolverNext]_vars

(***************************************************************************)
(* parse_build_errors.py of src/Scripts: parse_build_output and            *)
(* write_grouped_errors.  A line of the build output is a sequence of      *)
(* tokens; the substrings the code looks for are tokens of their own.      *)
(***************************************************************************)
MaxBuildLines == 3   \* lines of the build output file

MarkerPrefix == "INFO: From Compiling Swift module"
Unknown == <<"Unknown">>

\* the report file (sys.argv[2], "grouped_build_errors.md" by default)
OutputFile == "grouped_build_errors.md"
DiagnosedFiles == {"Sources/a.swift", "Sources/b.swift"}

\* words matched by Sources/[A-Za-z0-9_/]+\.swift
PathTokens == DiagnosedFiles

\* line.startswith(word)
StartsWith(line, word) == line # <<>> /\ line[1] = word

\* line.startswith("INFO:"): the marker prefix begins with it
StartsWithInfo(line) == StartsWith(line, "INFO:") \/ StartsWith(line, MarkerPrefix)

\* group(1) of re.search(pre + "'([^']+)'" + post, line); Unknown when the
\* regex does not match (extract_missing_item, extract_type,
\* extract_missing_member, lines 120-136)
Quoted(line, pre, post) ==
    LET pat(x) == pre \o <<"'", x, "'">> \o post
        hits == {k \in 1..Len(line) :
                    /\ k + Len(pre) + 2 + Len(post) <= Len(line)
                    /\ line[k + Len(pre) + 1] # "'"
                    /\ SubSeq(line, k, k + Len(pre) + 2 + Len(post))
                          = pat(line[k + Len(pre) + 1])}
    IN  IF hits = {} THEN "Unknown"
        ELSE line[(CHOOSE k \in hits : \A h \in hits : k <= h) + Len(pre) + 1]

extract_missing_item(line) == Quoted(line, <<"cannot find", " ">>, <<" ", "in scope">>)
extract_type(line) == Quoted(line, <<"type", " ">>, <<>>)
extract_missing_member(line) == Quoted(line, <<"has no member", " ">>, <<>>)

\* re.search(r'(Sources/[A-Za-z0-9_/]+\.swift):', line): group(1), "" when
\* the line does not match
PathOf(line) ==
    LET hits == {k \in 1..(Len(line) - 1) : line[k] \in PathTokens /\ line[k + 1] = ":"}
    IN  IF hits = {} THEN "" ELSE line[CHOOSE k \in hits : \A h \in hits : k <= h]

\* get_file_from_context, lines 112-118: the path of the first line of the
\* context that names one
RECURSIVE get_file_from_context(_)
get_file_from_context(context_lines) ==
    IF context_lines = <<>> THEN "Unknown"
    ELSE IF PathOf(Head(context_lines)) # "" THEN PathOf(Head(context_lines))
    ELSE get_file_from_context(Tail(context_lines))

\* the loop `for j in range(max(0, i-3), min(len(lines), i+4))`, i 0-based
ContextLines(lines, i) ==
    [j \in 1..(Min(Len(lines), i + 4) - Max(0, i - 3)) |-> Strip(lines[Max(0, i - 3) + j])]

\* an element of one of the five lists; "" stands for a missing key
Diagnostic(module, message, context, file, missing_item, type, missing_member) ==
    [module |-> module, message |-> message, context |-> context, file |-> file,
     missing_item |-> missing_item, type |-> type, missing_member |-> missing_member]

\* which branch of the if/elif chain of lines 34-100 takes the line
BranchOf(line) ==
    IF Contains(line, <<"this is an error in the Swift 6 language mode">>) THEN "swift6"
    ELSE IF Contains(line, <<"cannot find">>) /\ Contains(line, <<"in scope">>) THEN "function"
    ELSE IF Contains(line, <<"does not conform to">>) \/ Contains(line, <<"cannot conform to">>)
    THEN "conformance"
    ELSE IF Contains(line, <<"has no member">>) THEN "member"
    ELSE IF Contains(line, <<"error:">>) /\ ~StartsWithInfo(line)
            /\ ~StartsWith(line, "ERROR:")
    THEN "other"
    ELSE "none"

\* line 31 without the assignment: the module stays what it was
ModuleAfter_Kept(module, line) == module

\* lines 30-31: line.split("//")[1].split(":")[0]; <<"IndexError">> when the
\* marker holds no "//"
ModuleAfter(module, line) ==
    IF ~StartsWith(line, MarkerPrefix) THEN module
    ELSE IF Len(Split(line, "//")) < 2 THEN <<"IndexError">>
    ELSE Split(Split(line, "//")[2], ":")[1]

\* one iteration of the loop of lines 26-102
classify_line ==
    /\ cls_pc = "parse"
    /\ LET line == Strip(cls_lines[cls_i + 1])
           module == ModuleAfter(current_module, line)
           context == ContextLines(cls_lines, cls_i)
           file == get_file_from_context(context)
           b == BranchOf(line)
           plain == Diagnostic(module, line, context, file, "", "", "")
       IN  IF module = <<"IndexError">>
           THEN /\ cls_pc' = "crashed"
                /\ UNCHANGED <<current_module, cls_i, swift_6_warnings,
                               missing_function_errors, type_conformance_errors,
                               missing_member_errors, other_errors>>
           ELSE /\ current_module' = module
                /\ swift_6_warnings' =
                      IF b = "swift6" THEN Append(swift_6_warnings, plain)
                      ELSE swift_6_warnings
                /\ missing_function_errors' =
                      IF b = "function"
                      THEN Append(missing_function_errors,
                                  [plain EXCEPT !.missing_item = extract_missing_item(line)])
                      ELSE missing_function_errors
                /\ type_conformance_errors' =
                      IF b = "conformance" THEN Append(type_conformance_errors, plain)
                      ELSE type_conformance_errors
                /\ missing_member_errors' =
                      IF b = "member"
                      THEN Append(missing_member_errors,
                                  [plain EXCEPT !.type = extract_type(line),
                                                !.missing_member = extract_missing_member(line)])
                      ELSE missing_member_errors
                /\ other_errors' =
                      IF b = "other" THEN Append(other_errors, plain) ELSE other_errors
                /\ cls_i' = cls_i + 1
                /\ cls_pc' = IF cls_i + 1 < Len(cls_lines) THEN "parse" ELSE "report"
    /\ UNCHANGED <<cls_lines, classifyOthers>>

\* error_groups of lines 104-108, in insertion order
GroupNames ==
    << "Swift 6 Language Mode Warnings", "Missing Function Errors",
       "Type Conformance Issues", "Missing Member Errors", "Other Errors" >>

GroupList(name) ==
    CASE name = GroupNames[1] -> swift_6_warnings
      [] name = GroupNames[2] -> missing_function_errors
      [] name = GroupNames[3] -> type_conformance_errors
      [] name = GroupNames[4] -> missing_member_errors
      [] OTHER -> other_errors

\* write_grouped_errors, lines 138-223, called by main (lines 237-238): the
\* report holds the count of every group and the **File** line of every
\* entry; it is the only file the script opens for writing
write_grouped_errors ==
    /\ cls_pc = "report"
    /\ disk' = [disk EXCEPT ![OutputFile] =
                   [k \in 1..Len(GroupNames) |->
                      [group |-> GroupNames[k],
                       issues |-> Len(GroupList(GroupNames[k])),
                       files |-> [e \in 1..Len(GroupList(GroupNames[k])) |->
                                     GroupList(GroupNames[k])[e].file]]]]
    /\ writes' = [writes EXCEPT ![OutputFile] = @ + 1]
    /\ cls_pc' = "done"
    /\ UNCHANGED <<cls_lines, current_module, cls_i, swift_6_warnings,
                   missing_function_errors, type_conformance_errors,
                   missing_member_errors, other_errors,
                   preRun, backups, dry_run, run, faults,
                   parserVars, fixerVars, migVars, resolverVars, logVars,
                   xpcVars, buildVars>>

\* the lines of the build outputs
MarkerLine(package, name) == <<MarkerPrefix, " ", "//", package, ":", name, ":">>

DiagLine(file, l, c, kind, text) == <<file, ":", l, ":", c, ":", " ", kind, " ">> \o text

CannotFindFoo == <<"cannot find", " ", "'", "foo", "'", " ", "in scope">>

BuildLineSamples ==
    { MarkerLine("Sources/A", "A"),
      MarkerLine("Sources/A", "ATests"),
      MarkerLine("Sources/B", "B"),
      DiagLine("Sources/a.swift", "3", "5", "error:", CannotFindFoo),
      DiagLine("Sources/b.swift", "7", "1", "error:", CannotFindFoo),
      DiagLine("Sources/a.swift", "1", "2", "error:",
               <<"type", " ", "'", "T", "'", " ", "has no member", " ", "'", "m", "'">>),
      DiagLine("Sources/b.swift", "1", "1", "error:", <<"x">>),
      DiagLine("Sources/a.swift", "9", "9", "warning:",
               <<"sending", " ", "'", "x", "'", "; ",
                 "this is an error in the Swift 6 language mode">>),
      <<" ", " ", "foo", "()">> }

ClassifyInit ==
    /\ cls_lines \in {s \in SeqsUpTo(BuildLineSamples, MaxBuildLines) : Len(s) >= 1}
    /\ current_module = Unknown
    /\ cls_i = 0
    /\ swift_6_warnings = <<>>
    /\ missing_function_errors = <<>>
    /\ type_conformance_errors = <<>>
    /\ missing_member_errors = <<>>
    /\ other_errors = <<>>
    /\ cls_pc = "parse"
    /\ disk = [f \in DiagnosedFiles \cup {OutputFile} |-> IF f = OutputFile THEN NoFile ELSE <<"x">>]
    /\ preRun = disk
    /\ backups = {}
    /\ writes = [f \in DiagnosedFiles \cup {OutputFile} |-> 0]
    /\ dry_run = FALSE
    /\ run = 1
    /\ faults = 0
    /\ ParserIdle
    /\ FixerIdle
    /\ MigIdle
    /\ ResolverIdle
    /\ LogIdle
    /\ XpcIdle
    /\ BuildIdle

ClassifyNext ==
    \/ classify_line
    \/ write_grouped_errors

SpecClassify == ClassifyInit /\ [][ClassifyNext]_vars

(***************************************************************************)
(* Claims about BuildErrorFixer, checked under Spec.                       *)
(***************************************************************************)

\* C1: in an apply run, whenever a source file has been written, a backup
\* of that file exists whose content is the file's content before the first
\* edit of the run.
C1_BackupExistsForWrittenFile ==
    \A f \in SourceFiles :
        (~dry_run /\ writes[f] > 0) =>
            \E b \in backups : b.file = f /\ b.content = preRun[f]

\* C3: the second apply run over the same build log and the files left by
\* the first run performs no file write.
C3_SecondRunWritesNothing ==
    (run = 2 /\ ~dry_run /\ faults = 0) => \A f \in SourceFiles : writes[f] = 0

\* C5: in a dry run every file keeps its content, for any build log, and
\* files_modified stays empty.
C5_DryRunLeavesDisk ==
    dry_run => (disk = preRun /\ files_modified = {})

\* a dry run went to its end through a brace fix (fixes_applied counted it)
\* whose line still holds the brace an apply run would have removed
C5_Witness ==
    /\ dry_run /\ phase = "done" /\ fixes_applied > 0
    /\ \E i \in 1..Len(PhaseGroup("braces")) :
          LET d == PhaseGroup("braces")[i]
              p == PyIndex(disk[d[1]], d[2] - 1)
          IN  p # 0 /\ Contains(disk[d[1]][p], <<"}">>)

\* C8: once fix_missing_members has written the replacement for an
\* XPCSecurityError.operationFailed diagnostic, running the fix again for
\* the same diagnostic leaves the text of the reported line unchanged.
C8_ReplacedLineStaysFixed ==
    [][ (phase = "missing" /\ idx <= Len(PhaseGroup("missing"))) =>
          LET d == PhaseGroup("missing")[idx]
              p == PyIndex(disk[d[1]], d[2] - 1)
          IN  (<<d[1], d[2]>> \in replacedAt /\ p # 0) =>
                  disk'[d[1]][p] = disk[d[1]][p] ]_vars

\* the second run wrote the file again for a diagnostic whose line the first
\* run had rewritten to .internalError (no other fix ran)
C8_Witness ==
    /\ run = 2 /\ ~dry_run /\ phase = "done"
    /\ Len(PhaseGroup("braces")) = 0
    /\ \E i \in 1..Len(PhaseGroup("missing")) :
          LET d == PhaseGroup("missing")[i]
              p == PyIndex(disk[d[1]], d[2] - 1)
          IN  /\ <<d[1], d[2]>> \in replacedAt
              /\ writes[d[1]] > 0
              /\ p # 0
              /\ Contains(disk[d[1]][p], IntError)


\* C20: an iteration of fix_missing_members or fix_extraneous_braces whose
\* fix leaves the lines it read as they are (the pattern is not on the
\* reported line) is a skip: fixes_applied keeps its value and the file is
\* not written.
C20_UnchangedLineIsSkipped ==
    [][ (phase \in {"missing", "braces"} /\ idx <= Len(PhaseGroup(phase))) =>
          LET d == PhaseGroup(phase)[idx]
              r == FixOf(phase, disk[d[1]], d[2], d[4])
          IN  (faults' = faults /\ ~r.crash /\ r.lines = disk[d[1]]) =>
                  /\ fixes_applied' = fixes_applied
                  /\ writes' = writes
                  /\ files_modified' = files_modified ]_vars

\* a fix method is inside its loop
InFixLoop == phase \in {Phases[k] : k \in 1..Len(Phases)} /\ idx <= Len(PhaseGroup(phase))

\* C21: for the same build log and the same initial files, fixes_applied at
\* the end of the dry run equals fixes_applied at the end of the apply run
\* (here the apply run that follows the dry run, which left the files as
\* they were).
C21_DryRunCountsAsApplyRun ==
    (run = 2 /\ dry_fixes # -1 /\ phase = "done" /\ faults = 0) =>
        fixes_applied = dry_fixes

\* C22: in an apply run each file is written at most once.
C22_WrittenAtMostOnce ==
    ~dry_run => \A f \in SourceFiles : writes[f] <= 1

\* C23: an iteration of a fix method changes no line of the file other than
\* the one at the reported 1-based line number of its diagnostic, and keeps
\* the number of lines of the file, whatever the reported line number is.
C23_OnlyReportedLineChanges ==
    [][ InFixLoop =>
          LET d == PhaseGroup(phase)[idx]
          IN  /\ Len(disk'[d[1]]) = Len(disk[d[1]])
              /\ \A k \in 1..Len(disk[d[1]]) :
                    k # d[2] => disk'[d[1]][k] = disk[d[1]][k] ]_vars

\* C24: an iteration of a fix method in which reading the file fails writes
\* nothing, lets no exception escape and goes on with the next diagnostic.
\* (A failed write comes after the fix was counted, so the iterations with a
\* failure that leave fixes_applied as it was are those of a failed read.)
C24_ReadFailureIsContained ==
    [][ (InFixLoop /\ faults' = faults + 1 /\ fixes_applied' = fixes_applied) =>
          /\ writes' = writes
          /\ disk' = disk
          /\ phase' # "crashed"
          /\ [phase |-> phase', idx |-> idx']
                = NextPos(error_groups, warning_groups, phase, idx + 1) ]_vars

\* C28: at the end of an apply run, the closure property of every
\* sendable_property diagnostic, reported as a warning or as an error, has
\* got its @Sendable.
C28_SendableErrorsAreFixed ==
    (phase = "done" /\ run = 1 /\ ~dry_run /\ faults = 0) =>
        \A i \in 1..Len(buildLog) :
            LET sec == buildLog[i]
            IN  (/\ determine_error_type(sec.msg) = "sendable_property"
                 /\ sec.line \in 1..Len(preRun[sec.file])
                 /\ preRun[sec.file][sec.line] = SendableLine)
                    => Contains(disk[sec.file][sec.line], <<"@Sendable">>)

(***************************************************************************)
(* Claims about coretypes_migration, checked under SpecMigration.          *)
(***************************************************************************)

\* C2: the backup is created before the file is written: in every state, a
\* file whose content differs from its content at the start of the run has
\* a backup holding the content that was read before the replacement.
C2_BackupBeforeWrite ==
    \A f \in ProjectFiles :
        disk[f] # preRun[f] =>
            \E b \in backups : b.file = f /\ b.content = preRun[f]

\* a Swift file and the BUILD.bazel file have both been rewritten
C2_Witness ==
    /\ mode = "apply_all"
    /\ \E f \in SwiftFiles : disk[f] # preRun[f] /\ writes[f] = 1
    /\ \E f \in BazelFiles : disk[f] # preRun[f] /\ writes[f] = 1

\* C4: a second --apply-all run on the project left by a first run writes
\* no file and creates no new backup (no I/O failure in either run).
C4_SecondMigrationWritesNothing ==
    (run = 2 /\ mode = "apply_all" /\ faults = 0) =>
        (backups_made = 0 /\ \A f \in ProjectFiles : writes[f] = 0)

\* the files the run targets
Targeted == {swift_files[i] : i \in 1..Len(swift_files)}
              \cup {bazel_files[i] : i \in 1..Len(bazel_files)}

ErrorsOf(f) == {stats.errors[i][2] : i \in {j \in 1..Len(stats.errors) : stats.errors[j][1] = f}}

UpdatedOf(f) == IF f \in SwiftFiles THEN UpdatedSwift(preRun[f]) ELSE UpdatedBazel(preRun[f])

\* C7: at the end of an --apply-all run, a file whose backup failed has its
\* content unchanged and an error entry naming it, it is not counted as
\* updated, and every targeted file that met no failure has been processed:
\* it holds its rewritten content and the counters count exactly the files
\* rewritten; every failure of the run has its entry in stats.errors.
C7_BackupFailureIsPerFile ==
    (mpc = "report" /\ mode = "apply_all") =>
        /\ \A f \in Targeted :
              /\ "backup" \in ErrorsOf(f) => (disk[f] = preRun[f] /\ writes[f] = 0)
              /\ ErrorsOf(f) = {} => disk[f] = UpdatedOf(f)
        /\ stats.swift_files_updated + stats.bazel_files_updated
             = Cardinality({f \in Targeted : ErrorsOf(f) = {} /\ UpdatedOf(f) # preRun[f]})
        /\ run = 1 => Len(stats.errors) = faults

\* the backup of the first Swift file failed; the second Swift file and the
\* BUILD.bazel file were rewritten after it
C7_Witness ==
    /\ mpc = "report" /\ mode = "apply_all" /\ run = 1
    /\ Len(swift_files) = 2
    /\ "backup" \in ErrorsOf(swift_files[1])
    /\ disk[swift_files[2]] # preRun[swift_files[2]]
    /\ \E f \in BazelFiles : disk[f] # preRun[f]
    /\ stats.swift_files_updated = 1 /\ stats.bazel_files_updated = 1

\* C27: in interactive mode, once the user has answered 'q', no further
\* file is prompted for and no file is modified.
C27_QuitAbandonsAllFiles ==
    [][ InSeq("q", answers) => (answers' = answers /\ disk' = disk) ]_vars

(***************************************************************************)
(* Claim about BatchErrorResolver, checked under SpecResolver.             *)
(***************************************************************************)

\* C6: in a --dry-run invocation of batch_error_resolver no file of the
\* project is modified, whatever the --fix type.
C6_ResolverDryRunLeavesDisk ==
    dry_run => (disk = preRun /\ \A f \in ResolverFiles : writes[f] = 0)

\* 0-based positions of the import statements of a content (an "import"
\* that begins a line)
ImportStarts(content) ==
    {k \in 0..(Len(content) - 2) :
        /\ content[k + 1] = "import" /\ content[k + 2] = " "
        /\ (k = 0 \/ content[k] = "\n")}

\* the content with the import statement of `name` on a line of its own
\* right after the last import statement, at the top when there is none
WithImportAfterLast(content, name) ==
    IF ImportStarts(content) = {} THEN Import(name) \o <<"\n">> \o content
    ELSE LET last == CHOOSE k \in ImportStarts(content) :
                        \A h \in ImportStarts(content) : h <= k
             nl == Find(content, <<"\n">>, last)
         IN  IF nl = -1 THEN content \o <<"\n">> \o Import(name)
             ELSE PySlice(content, 0, nl + 1) \o Import(name) \o <<"\n">>
                     \o PySlice(content, nl + 1, Len(content))

\* C25, for the `import CoreErrors` step of fix_namespace_conflicts: a file
\* that uses XPCSecurityError is left with the import it already has, or
\* gets the import right after its last import statement, at the top of
\* the file when it has no import.
C25_ImportAfterLastImport ==
    [][ (rpc = "namespace" /\ ~dry_run) =>
          \A f \in find_swift_files :
              LET before == AddAlias(disk[f])
              IN  Contains(before, <<"XPC", "SecurityError">>) =>
                      disk'[f] = IF Contains(before, Import("CoreErrors")) THEN before
                                 ELSE WithImportAfterLast(before, "CoreErrors") ]_vars

(***************************************************************************)
(* Claim about parse_build_output, checked under SpecBuildLog.             *)
(***************************************************************************)

\* the error entries of all targets that carry the fields of a log line
EntriesOf(line) ==
    {<<t, k>> \in TargetNames \X (1..(2 * MaxLogLines)) :
        /\ k <= Len(targets.at[t].errors)
        /\ LET e == targets.at[t].errors[k]
               info == LineTable[line]
           IN  /\ e.file = info.file /\ e.line = info.line
               /\ e.column = info.column /\ e.message = info.message}

\* C9: when parse_build_output returns, every line of the form
\* <path>.swift:<line>:<col>: error: <msg> has exactly one error entry, counted
\* across all targets: there are as many entries with the line's fields as
\* there are lines with its text.
C9_OneEntryPerErrorLine ==
    pass = "done" =>
        \A i \in 1..Len(log_lines) :
            LineTable[log_lines[i]].kind = "error" =>
                Cardinality(EntriesOf(log_lines[i]))
                    = Cardinality({j \in 1..Len(log_lines) : log_lines[j] = log_lines[i]})

\* a line that holds "error:" and matches none of the three patterns
NonStandard(line) ==
    /\ LineTable[line].has_error
    /\ LineTable[line].kind = ""
    /\ LineTable[line].target = ""
    /\ LineTable[line].nonstd # ""

\* every place of an error entry, as <<target, position>>
ErrorPlaces ==
    {<<t, k>> \in TargetNames \X (1..(2 * MaxLogLines)) : k <= Len(targets.at[t].errors)}

OutsideSections ==
    {i \in 0..(Len(log_lines) - 1) :
        /\ LineTable[log_lines[i + 1]].kind = "error"
        /\ \A j \in 1..i : LineTable[log_lines[j]].target = ""}

\* the targets of the first pass that hold an error or a warning of the file
Holders(file) ==
    {t \in TargetNames \ {"Unassigned"} :
        \/ \E k \in 1..Len(targets.at[t].errors) :
              /\ targets.at[t].errors[k].file = file
              /\ targets.at[t].errors[k].processed_line = -1
        \/ \E k \in 1..Len(targets.at[t].warnings) : targets.at[t].warnings[k].file = file}

C26_ContextHoldsAtMostEight ==
    pass # "idle" =>
        \A t \in TargetNames :
            LET entries == targets.at[t].errors \o targets.at[t].warnings
            IN  \A k \in 1..Len(entries) :
                    /\ Len(entries[k].context) <= 8
                    /\ \A c \in 1..Len(entries[k].context) : entries[k].context[c] # ""

(***************************************************************************)
(* Claim about ErrorParser.parse, checked under SpecParser.                *)
(***************************************************************************)

WellFormed(sec) == sec.nf >= 3 /\ sec.lineInt /\ sec.colInt
MalformedCoordinate(sec) == sec.nf >= 3 /\ ~(sec.lineInt /\ sec.colInt)

\* the section is in file_errors and in the group of its category
Categorised(sec) ==
    LET error_type == determine_error_type(sec.msg)
        groups == IF HasWarning(sec.msg) THEN warning_groups ELSE error_groups
    IN  /\ InSeq(<<error_type, sec.line, sec.col, sec.msg>>, file_errors.at[sec.file])
        /\ InSeq(<<sec.file, sec.line, sec.col, sec.msg>>, groups.at[error_type])

\* C10: when parse() has returned, every valid section that comes after a
\* section with a malformed coordinate has been parsed and categorised.
C10_ParsingContinuesAfterMalformed ==
    parse_status \in {"done", "aborted"} =>
        \A i \in 1..Len(buildLog) :
            (WellFormed(buildLog[i]) /\ \E j \in 1..(i - 1) : MalformedCoordinate(buildLog[j]))
                => Categorised(buildLog[i])

\* position of a pattern in error_patterns
PatternIndex(pat) == CHOOSE i \in 1..Len(error_patterns) : error_patterns[i] = pat

\* every entry of file_errors, as <<file, entry>>
FileEntries ==
    {<<f, k>> \in SourceFiles \X (1..MaxSections) : k <= Len(file_errors.at[f])}

\* C12: after parse(), the category of every section whose message matches
\* at least one pattern of error_patterns is the matching pattern that comes
\* first in the table, also when the message holds "warning:"; it is never
\* general_warning or other_error.
C12_FirstMatchingPatternDecides ==
    parse_status \in {"done", "aborted"} =>
        \A fk \in FileEntries :
            LET e == file_errors.at[fk[1]][fk[2]]
                pats == MessageTable[e[4]].pats
            IN  pats # {} =>
                    /\ e[1] \in pats
                    /\ \A q \in pats : PatternIndex(e[1]) <= PatternIndex(q)

\* a warning that matches missing_member and type_not_found was filed as
\* missing_member, and a message that names unwrap_optional's text before
\* incorrect_optional's was filed as incorrect_optional
C12_Witness ==
    /\ parse_status = "done"
    /\ \E fk \in FileEntries :
          LET e == file_errors.at[fk[1]][fk[2]]
          IN  e[4] = MsgMemberWarn /\ e[1] = "missing_member"
    /\ \E fk \in FileEntries :
          LET e == file_errors.at[fk[1]][fk[2]]
          IN  e[4] = MsgUnwrapAndBinding /\ e[1] = "incorrect_optional"

\* the sections parse() went through before it returned: those with three
\* fields or more, up to the first one whose coordinates int() rejects
ParsedIndexes ==
    {i \in 1..Len(buildLog) :
        /\ WellFormed(buildLog[i])
        /\ \A j \in 1..(i - 1) : ~MalformedCoordinate(buildLog[j])}

\* the places of an entry in a group dict, as <<category, position>>
GroupHits(d, entry) ==
    {<<c, k>> \in Categories \X (1..MaxSections) :
        k <= Len(d.at[c]) /\ d.at[c][k] = entry}

\* number of entries of a dict whose keys are in K
Total(d, K) ==
    Cardinality({<<c, k>> \in K \X (1..MaxSections) : k <= Len(d.at[c])})

\* C13: after parse(), every parsed section is once in file_errors and once
\* in error_groups or warning_groups, never in both, under one category
\* (general_warning or other_error exactly when no pattern matches), a
\* section that occurs n times in the log being there n times; the groups
\* hold together as many entries as file_errors.
C13_OneCategoryPerSection ==
    parse_status \in {"done", "aborted"} =>
        /\ \A i \in ParsedIndexes :
              LET sec == buildLog[i]
                  n == Cardinality({j \in ParsedIndexes : buildLog[j] = sec})
                  entry == <<sec.file, sec.line, sec.col, sec.msg>>
                  inErr == GroupHits(error_groups, entry)
                  inWarn == GroupHits(warning_groups, entry)
                  cats == {h[1] : h \in inErr \cup inWarn}
                  byFile == {fk \in FileEntries :
                               /\ fk[1] = sec.file
                               /\ SubSeq(file_errors.at[fk[1]][fk[2]], 2, 4)
                                     = <<sec.line, sec.col, sec.msg>>}
              IN  /\ Cardinality(byFile) = n
                  /\ Cardinality(inErr) + Cardinality(inWarn) = n
                  /\ inErr = {} \/ inWarn = {}
                  /\ Cardinality(cats) = 1
                  /\ \A fk \in byFile : file_errors.at[fk[1]][fk[2]][1] \in cats
                  /\ (cats \subseteq {"general_warning", "other_error"})
                        <=> (MessageTable[sec.msg].pats = {})
        /\ Total(error_groups, Categories) + Total(warning_groups, Categories)
              = Total(file_errors, SourceFiles)
        /\ Total(file_errors, SourceFiles) = Cardinality(ParsedIndexes)

\* a log of three parsed sections: a warning without pattern, an error
\* without pattern and a warning with one, the first two for the same file
C13_Witness ==
    /\ parse_status = "done"
    /\ Cardinality(ParsedIndexes) = MaxSections
    /\ Len(warning_groups.at["general_warning"]) = 1
    /\ Len(error_groups.at["other_error"]) = 1
    /\ Len(warning_groups.at["sendable_property"]) = 1
    /\ \E f \in SourceFiles : Len(file_errors.at[f]) = 2

\* the counts of a printed list go down
Descending(pairs) ==
    \A a \in 1..Len(pairs) : \A b \in (a + 1)..Len(pairs) : pairs[a][2] >= pairs[b][2]

\* C17: the summary lists the categories of the error groups, and those of
\* the warning groups, in descending order of their number of occurrences.
C17_CategoriesRankedByCount ==
    summary # <<>> =>
        /\ Descending(summary.error_groups)
        /\ Descending(summary.warning_groups)

\* the position in the log of the first parsed section of a file
FirstSeen(f) ==
    CHOOSE i \in ParsedIndexes :
        /\ buildLog[i].file = f
        /\ \A j \in ParsedIndexes : buildLog[j].file = f => i <= j

\* C18: the file ranking of the summary holds every file with an issue,
\* once, with its number of issues, in descending order of that number;
\* files with equal numbers stand in the order in which the log first
\* names them.
C18_FilesRankedByCount ==
    summary # <<>> =>
        LET files == summary.files
            seen == {buildLog[i].file : i \in ParsedIndexes}
        IN  /\ {files[k][1] : k \in 1..Len(files)} = seen
            /\ Len(files) = Cardinality(seen)
            /\ \A k \in 1..Len(files) :
                  files[k][2] = Cardinality({i \in ParsedIndexes :
                                               buildLog[i].file = files[k][1]})
            /\ \A a \in 1..Len(files) : \A b \in (a + 1)..Len(files) :
                  \/ files[a][2] > files[b][2]
                  \/ /\ files[a][2] = files[b][2]
                     /\ FirstSeen(files[a][1]) < FirstSeen(files[b][1])

\* the summaries of two logs cannot be told in one state, so the witness is
\* the tie: the log names Sources/B.swift first, both files have one issue,
\* and Sources/B.swift is listed first
C18_Witness ==
    /\ summary # <<>>
    /\ Len(summary.files) = 2
    /\ summary.files[1] = <<"Sources/B.swift", 1>>
    /\ summary.files[2] = <<"Sources/A.swift", 1>>

(***************************************************************************)
(* Claims about Scripts/parse_build_errors.py, checked under SpecClassify. *)
(***************************************************************************)

\* the module named by the last marker line before line i (0-based) of the
\* log: the package path of its label, Unknown when no marker comes before
RecentModule(lines, i) ==
    LET markers == {j \in 1..i : StartsWith(Strip(lines[j]), MarkerPrefix)}
    IN  IF markers = {} THEN Unknown
        ELSE <<Strip(lines[CHOOSE j \in markers : \A m \in markers : m <= j])[4]>>

\* the entry a step appended to a list, if any, carries the module
RecordedUnder(old, new, module) ==
    Len(new) > Len(old) => new[Len(new)].module = module

\* C14: every diagnostic parse_build_output records, in any of its five
\* lists, carries as module the one named by the most recent marker line
\* that precedes the diagnostic's line, "Unknown" when none precedes it.
C14_ModuleOfMostRecentMarker ==
    [][ cls_pc = "parse" =>
          /\ RecordedUnder(swift_6_warnings, swift_6_warnings',
                           RecentModule(cls_lines, cls_i))
          /\ RecordedUnder(missing_function_errors, missing_function_errors',
                           RecentModule(cls_lines, cls_i))
          /\ RecordedUnder(type_conformance_errors, type_conformance_errors',
                           RecentModule(cls_lines, cls_i))
          /\ RecordedUnder(missing_member_errors, missing_member_errors',
                           RecentModule(cls_lines, cls_i))
          /\ RecordedUnder(other_errors, other_errors',
                           RecentModule(cls_lines, cls_i)) ]_vars

\* a diagnostic before any marker and one after the marker of //Sources/B:B
C14_Witness ==
    /\ cls_pc = "done"
    /\ Len(missing_function_errors) = 2
    /\ missing_function_errors[1].module = Unknown
    /\ missing_function_errors[2].module = <<"Sources/B">>

\* the lines of the log that hold `cannot find 'foo' in scope`
FooLines == {i \in 1..Len(cls_lines) : Contains(cls_lines[i], CannotFindFoo)}

\* the k-th of them
FooLine(k) == CHOOSE i \in FooLines : Cardinality({j \in FooLines : j < i}) = k - 1

\* C19: Scenario A: for a log with three `cannot find 'foo' in scope` lines
\* over two files, the Missing Function group holds three entries, each
\* with the file of its own line, the report lists both files, and no
\* source file is written.
C19_ScenarioA ==
    (/\ cls_pc = "done"
     /\ Cardinality(FooLines) = 3
     /\ {PathOf(cls_lines[i]) : i \in FooLines} = DiagnosedFiles) =>
        /\ Len(missing_function_errors) = 3
        /\ \A k \in 1..3 :
              missing_function_errors[k].file = PathOf(cls_lines[FooLine(k)])
        /\ {disk[OutputFile][2].files[k] : k \in 1..3} = DiagnosedFiles
        /\ \A f \in DiagnosedFiles : disk[f] = preRun[f] /\ writes[f] = 0

(***************************************************************************)
(* The exit status of the scripts.                                         *)
(***************************************************************************)

\* `if __name__ == "__main__": main()`: the interpreter exits with 0 when
\* main returns and with 1 when an exception escapes it; neither of the two
\* scripts below calls sys.exit after its arguments are read.  -1: the
\* script is still running
ProcessExit(returned, raised) ==
    IF raised THEN 1 ELSE IF returned THEN 0 ELSE -1

\* coretypes_migration.py main, lines 247-342: every exception of an update
\* is caught inside the update; main prints the report and returns
migration_exit_code == ProcessExit(mpc = "report", FALSE)

\* fix_build_errors.py main, lines 197-216: read_file and write_file catch
\* their exceptions; an IndexError of lines[line_num-1] escapes
fixer_exit_code == ProcessExit(phase = "done", phase = "crashed")

\* C11: a migration run that finished ends with exit code 2 when it met at
\* least one per-file failure (an entry of stats.errors) and with exit code
\* 0 when it met none.
C11_ExitCodeReportsFailures ==
    mpc = "report" =>
        migration_exit_code = IF Len(stats.errors) > 0 THEN 2 ELSE 0

\* the same for the fixer: a finished run that met a read or write failure
\* ends with exit code 2
C11_FixerExitCode ==
    (phase = "done" /\ run = 1) =>
        fixer_exit_code = IF faults > 0 THEN 2 ELSE 0

(***************************************************************************)
(* MigrationRunner (src/Scripts/xpc_migration.py).  The shell scripts the  *)
(* runner starts are outside the repository's Python code: each one ends   *)
(* with success or failure, chosen freely.                                 *)
(***************************************************************************)
MaxModules == 2      \* modules of one run

\* the values of MigrationStep
MigrationStep == {"analyze", "basic", "advanced", "verify", "all"}

XpcModuleNames == {"CoreTypes", "SecurityInterfaces"}

\* `STEP in steps or MigrationStep.ALL in steps`
StepRequested(steps, step) == step \in steps \/ "all" \in steps

\* process_module with the early return taken after every failed basic
\* migration, whatever dry_run
ProcessModule_AlwaysReturnsEarly(steps, dry, basic_ok, advanced_ok) ==
    LET basic == IF ~StepRequested(steps, "basic") THEN "none"
                 ELSE IF basic_ok THEN "ok" ELSE "failed"
        returned_early == basic = "failed"
        advanced == IF returned_early \/ ~StepRequested(steps, "advanced") THEN "none"
                    ELSE IF advanced_ok THEN "ok" ELSE "failed"
    IN  [basic |-> basic, advanced |-> advanced,
         success |-> basic # "failed" /\ advanced # "failed"]

\* process_module: which of run_basic_migration and run_advanced_fixes it
\* called ("none" when not called) with their results, and what it returned
ProcessModule(steps, dry, basic_ok, advanced_ok) ==
    LET basic == IF ~StepRequested(steps, "basic") THEN "none"
                 ELSE IF basic_ok THEN "ok" ELSE "failed"
        returned_early == basic = "failed" /\ ~dry
        advanced == IF returned_early \/ ~StepRequested(steps, "advanced") THEN "none"
                    ELSE IF advanced_ok THEN "ok" ELSE "failed"
    IN  [basic |-> basic, advanced |-> advanced,
         success |-> basic # "failed" /\ advanced # "failed"]

\* run_migration up to the loop over modules: the prerequisites, the
\* analyzer, the migration tracking and the selection of the modules
run_migration ==
    /\ xpc_pc = "start"
    /\ \E prerequisites_ok, analyzer_ok, tracking_ok \in BOOLEAN,
          selected \in SeqsUpTo(XpcModuleNames, MaxModules) :
          LET modules == IF xpc_modules = <<>> THEN selected ELSE xpc_modules
              ok == /\ prerequisites_ok
                    /\ StepRequested(xpc_steps, "analyze") => analyzer_ok
                    /\ tracking_ok
                    /\ modules # <<>>
          IN  /\ xpc_modules' = IF ok THEN modules ELSE xpc_modules
              /\ xpc_pc' = IF ok THEN "modules" ELSE "failed"
              /\ xpc_i' = IF ok THEN 1 ELSE xpc_i
    /\ all_success' = TRUE
    /\ UNCHANGED <<xpc_steps, xpc_results, dry_run, xpcOthers>>

\* one turn of `for module in modules`
process_module ==
    /\ xpc_pc = "modules"
    /\ xpc_i <= Len(xpc_modules)
    /\ \E basic_ok, advanced_ok \in BOOLEAN :
          LET r == ProcessModule(xpc_steps, dry_run, basic_ok, advanced_ok)
          IN  /\ xpc_results' = Append(xpc_results,
                    [module |-> xpc_modules[xpc_i], basic |-> r.basic,
                     advanced |-> r.advanced, success |-> r.success])
              /\ all_success' = (all_success /\ r.success)
    /\ xpc_i' = xpc_i + 1
    /\ xpc_pc' = IF xpc_i = Len(xpc_modules) THEN "verify" ELSE "modules"
    /\ UNCHANGED <<xpc_steps, xpc_modules, dry_run, xpcOthers>>

\* the end of run_migration: the verification and the summary
run_verification ==
    /\ xpc_pc = "verify"
    /\ \E verified \in BOOLEAN :
          all_success' = IF StepRequested(xpc_steps, "verify") /\ ~verified
                         THEN FALSE ELSE all_success
    /\ xpc_pc' = "done"
    /\ UNCHANGED <<xpc_steps, xpc_modules, xpc_i, xpc_results, dry_run, xpcOthers>>

\* main: one step from --step, the modules of --module (none: selected
\* at the prompt)
XpcInit ==
    /\ xpc_steps \in {{step} : step \in MigrationStep}
    /\ xpc_modules \in SeqsUpTo(XpcModuleNames, MaxModules)
    /\ xpc_i = 0
    /\ all_success = TRUE
    /\ xpc_results = <<>>
    /\ xpc_pc = "start"
    /\ dry_run \in BOOLEAN
    /\ disk = <<>>
    /\ preRun = <<>>
    /\ backups = {}
    /\ writes = <<>>
    /\ run = 1
    /\ faults = 0
    /\ ParserIdle
    /\ FixerIdle
    /\ MigIdle
    /\ ResolverIdle
    /\ LogIdle
    /\ ClassifyIdle
    /\ BuildIdle

XpcNext == run_migration \/ process_module \/ run_verification

SpecXpc == XpcInit /\ [][XpcNext]_vars

\* main: sys.exit(1) when run_migration returns False
xpc_exit_code ==
    IF xpc_pc = "failed" \/ (xpc_pc = "done" /\ ~all_success) THEN 1
    ELSE IF xpc_pc = "done" THEN 0 ELSE -1

\* C29 as stated: after a failed basic migration of a module the advanced
\* fixes are not executed outside a dry run and are executed in a dry run,
\* and the module is reported as failed in both cases.
C29_AsStated ==
    \A k \in 1..Len(xpc_results) :
        xpc_results[k].basic = "failed" =>
            /\ ~dry_run => xpc_results[k].advanced = "none"
            /\ dry_run => xpc_results[k].advanced # "none"
            /\ ~xpc_results[k].success /\ ~all_success
            /\ xpc_pc = "done" => xpc_exit_code = 1

\* C29: after a failed basic migration of a module the advanced fixes are
\* not executed outside a dry run; in a dry run they are still executed
\* when the steps include them; the module is reported as failed in both
\* cases, and so is the run.
C29_FailedBasicMigration ==
    \A k \in 1..Len(xpc_results) :
        xpc_results[k].basic = "failed" =>
            /\ ~dry_run => xpc_results[k].advanced = "none"
            /\ (dry_run /\ StepRequested(xpc_steps, "advanced")) =>
                  xpc_results[k].advanced # "none"
            /\ ~xpc_results[k].success /\ ~all_success
            /\ xpc_pc = "done" => xpc_exit_code = 1

\* a dry run that finished, in which the advanced fixes ran after a failed
\* basic migration
C29_Witness ==
    /\ xpc_pc = "done"
    /\ dry_run
    /\ \E k \in 1..Len(xpc_results) :
          xpc_results[k].basic = "failed" /\ xpc_results[k].advanced # "none"

(***************************************************************************)
(* fix_build_file (src/build_standards/fix_build_files.py).  A BUILD file  *)
(* is [lines, eol]: the lines content.splitlines() gives, each a sequence  *)
(* of tokens, and whether the content ends with a newline.                 *)
(***************************************************************************)
MaxAttrs == 2        \* attributes of the swift_library block

\* ' ' * n
Spaces(n) == [k \in 1..n |-> " "]

\* line.index(t), for a token that only blanks precede
IndexOf(line, t) ==
    (CHOOSE k \in 1..Len(line) : line[k] = t /\ \A j \in 1..(k - 1) : line[j] # t) - 1

\* new_name, lines 53-56, for the path <<parent_dir, base_dir>>
NewName(path) ==
    IF path[1] = "Sources" THEN <<path[2]>> ELSE <<path[1], "_", path[2]>>

\* f"{' ' * indent}    module_name = \"{new_name}\","
ModuleNameLine(indent, path) ==
    Spaces(indent) \o Spaces(4) \o <<"module_name =", " ", "\"">> \o NewName(path)
        \o <<"\"", ",">>

\* f"{' ' * indent}    visibility = [\"//visibility:public\"],"
VisibilityLine(indent) ==
    Spaces(indent) \o Spaces(4) \o <<"visibility =", " ", "[", "\"//visibility:public\"", "],">>

\* the seven lines of the copts block, lines 85-91
CoptsBlock(indent) ==
    <<Spaces(indent) \o Spaces(4) \o <<"copts =", " ", "[">>,
      Spaces(indent) \o Spaces(8) \o <<"\"-target\"", ",">>,
      Spaces(indent) \o Spaces(8) \o <<"\"arm64-apple-macos14.0\"", ",">>,
      Spaces(indent) \o Spaces(8) \o <<"\"-strict-concurrency=complete\"", ",">>,
      Spaces(indent) \o Spaces(8) \o <<"\"-warn-concurrency\"", ",">>,
      Spaces(indent) \o Spaces(8) \o <<"\"-enable-actor-data-race-checks\"", ",">>,
      Spaces(indent) \o Spaces(4) \o <<"],">>>>

\* one turn of `for line in lines`, lines 44-98 (found_module_name is
\* written and never read)
BuildLineStep(st, line, path) ==
    IF InSeq("swift_library(", line)
    THEN [st EXCEPT !.in_swift_library = TRUE,
                    !.new_lines = @ \o <<line, ModuleNameLine(IndexOf(line, "swift_library("), path)>>]
    ELSE IF st.in_swift_library /\ InSeq("copts =", line)
    THEN [st EXCEPT !.found_copts = TRUE]
    ELSE IF st.in_swift_library /\ InSeq("visibility =", line)
    THEN [st EXCEPT !.found_visibility = TRUE]
    ELSE IF st.in_swift_library /\ InSeq("module_name =", line)
    THEN st
    ELSE IF st.found_copts /\ InSeq("],", line)
    THEN [st EXCEPT !.found_copts = FALSE]
    ELSE IF st.in_swift_library /\ Strip(line) = <<")">>
    THEN [st EXCEPT !.in_swift_library = FALSE,
                    !.new_lines = @ \o (IF st.found_visibility THEN <<>>
                                        ELSE <<VisibilityLine(IndexOf(line, ")"))>>)
                                    \o (IF st.found_copts THEN <<>>
                                        ELSE CoptsBlock(IndexOf(line, ")")))
                                    \o <<line>>]
    ELSE IF ~st.found_copts
    THEN [st EXCEPT !.new_lines = Append(@, line)]
    ELSE st

\* the loop of lines 44-98 over lines, from the state st
RECURSIVE BuildLines(_, _, _)
BuildLines(st, lines, path) ==
    IF lines = <<>> THEN st
    ELSE BuildLines(BuildLineStep(st, lines[1], path), Tail(lines), path)

\* 'swift_library(' in content
IsSwiftLibrary(content) ==
    \E k \in 1..Len(content.lines) : InSeq("swift_library(", content.lines[k])

\* the content fix_build_file writes, lines 36-102: '\n'.join(new_lines)
\* ends with no newline
FixedContent(content, path) ==
    [lines |-> BuildLines([new_lines |-> <<>>, in_swift_library |-> FALSE,
                           found_copts |-> FALSE, found_visibility |-> FALSE],
                          content.lines, path).new_lines,
     eol |-> FALSE]

\* fix_build_file(build_file)
fix_build_file ==
    /\ bf_pc = "ready"
    /\ IF build_file \notin DOMAIN disk
       THEN /\ bf_pc' = "not_found"
            /\ UNCHANGED <<disk, writes>>
       ELSE IF ~IsSwiftLibrary(disk[build_file])
       THEN /\ bf_pc' = "skipped"
            /\ UNCHANGED <<disk, writes>>
       ELSE /\ disk' = [disk EXCEPT ![build_file] = FixedContent(@, build_file)]
            /\ writes' = [writes EXCEPT ![build_file] = @ + 1]
            /\ bf_pc' = "fixed"
    /\ UNCHANGED <<build_file, preRun, run, buildOthers>>

\* the script is started again on the files the first run left
FixBuildFileAgain ==
    /\ bf_pc \in {"fixed", "skipped", "not_found"}
    /\ run = 1
    /\ run' = 2
    /\ preRun' = disk
    /\ bf_pc' = "ready"
    /\ UNCHANGED <<build_file, disk, writes, buildOthers>>

\* the lines of a BUILD file whose block starts at column indent
LibraryLine(indent) == Spaces(indent) \o <<"swift_library(">>
CloseLine(indent) == Spaces(indent) \o <<")">>

\* the attributes of a block, each with its lines
AttributeSamples(indent) ==
    LET at(n) == Spaces(indent) \o Spaces(n)
    IN  { <<at(4) \o <<"name =", " ", "\"Foo\"", ",">>>>,
          <<at(4) \o <<"deps =", " ", "[", "\"//Sources/Bar\"", "],">>>>,
          <<at(4) \o <<"module_name =", " ", "\"Old\"", ",">>>>,
          <<at(4) \o <<"visibility =", " ", "[", "\"//visibility:private\"", "],">>>>,
          <<at(4) \o <<"copts =", " ", "[", "\"-warn-concurrency\"", "],">>>>,
          <<at(4) \o <<"copts =", " ", "[">>,
            at(8) \o <<"\"-warn-concurrency\"", ",">>,
            at(4) \o <<"],">>>> }

RECURSIVE Flatten(_)
Flatten(seqs) == IF seqs = <<>> THEN <<>> ELSE seqs[1] \o Flatten(Tail(seqs))

\* BUILD files that hold one swift_library block
SwiftLibraryFilesAt(indent) ==
    { [lines |-> <<LibraryLine(indent)>> \o Flatten(attrs) \o <<CloseLine(indent)>>,
       eol |-> eol] :
        eol \in BOOLEAN, attrs \in SeqsUpTo(AttributeSamples(indent), MaxAttrs) }

SwiftLibraryFiles == UNION {SwiftLibraryFilesAt(indent) : indent \in {0, 2}}

OtherBuildFile == [lines |-> <<<<"filegroup(">>, <<")">>>>, eol |-> TRUE]

BuildPaths == {<<"Sources", "Foo">>, <<"Foo", "Bar">>}

BuildFileInit ==
    /\ build_file \in BuildPaths
    /\ disk \in {[f \in {build_file} |-> c] : c \in SwiftLibraryFiles \cup {OtherBuildFile}}
                \cup {<<>>}
    /\ preRun = disk
    /\ writes = [f \in {build_file} |-> 0]
    /\ run = 1
    /\ bf_pc = "ready"
    /\ backups = {}
    /\ dry_run = FALSE
    /\ faults = 0
    /\ ParserIdle
    /\ FixerIdle
    /\ MigIdle
    /\ ResolverIdle
    /\ LogIdle
    /\ ClassifyIdle
    /\ XpcIdle

BuildFileNext == fix_build_file \/ FixBuildFileAgain

SpecBuildFile == BuildFileInit /\ [][BuildFileNext]_vars

\* the number of lines of content that hold the token t
LinesWith(content, t) == Cardinality({k \in 1..Len(content.lines) : InSeq(t, content.lines[k])})

\* C30: after fix_build_file ran on a BUILD file holding one swift_library
\* block, the block holds exactly one module_name line, exactly one
\* visibility attribute and exactly one copts block, and a second
\* application leaves the file unchanged.
C30_StandardisedAndIdempotent ==
    bf_pc = "fixed" =>
        /\ LinesWith(disk[build_file], "module_name =") = 1
        /\ LinesWith(disk[build_file], "visibility =") = 1
        /\ LinesWith(disk[build_file], "copts =") = 1
        /\ run = 2 => disk = preRun

====
